---- MODULE Spec2Model ----
(***************************************************************************)
(* Verification model of the PLD runtime (pld_runtime).                    *)
(*                                                                         *)
(* Part 1: the per-session phase state machine                             *)
(*         (pld_runtime/05_controllers/state_machine.py).                  *)
(* Part 2: the failover orchestrator                                       *)
(*         (pld_runtime/07_failover/runtime_failover.py, reconciliation.py,*)
(*          pld_runtime/failover/backoff_policies.py).                     *)
(* Part 3: the sequence rule checker                                       *)
(*         (pld_runtime/enforcement/sequence_rules.py).                    *)
(*                                                                         *)
(* Each part has its own specification; the variables of the other parts   *)
(* stay at None in it.                                                     *)
(***************************************************************************)
EXTENDS Integers, Sequences, FiniteSets, TLC

(***************************************************************************)
(* Bounds of the model.                                                    *)
(***************************************************************************)
\* turn_sequence values offered to apply_event are 1..MaxTurn
MaxTurn == 2

(***************************************************************************)
(* Values.                                                                 *)
(***************************************************************************)
\* Python's None for the optional string fields
None == "None"

\* Python's None for last_turn_sequence (turn_sequence itself is >= 1)
NoTurn == 0

\* class Phase(str, Enum)
Phase == {"drift", "repair", "reentry", "continue", "outcome", "failover", "none"}

\* _VALID_PHASES = {p.value for p in Phase}
VALID_PHASES == Phase

\* _MUST_PHASE_MAP
MUST_PHASE_MAP ==
    [ drift_detected     |-> "drift",
      drift_escalated    |-> "drift",
      repair_triggered   |-> "repair",
      repair_escalated   |-> "repair",
      reentry_observed   |-> "reentry",
      continue_allowed   |-> "continue",
      continue_blocked   |-> "continue",
      failover_triggered |-> "failover" ]

\* _SHOULD_PHASE_MAP
SHOULD_PHASE_MAP ==
    [ evaluation_pass |-> "outcome",
      evaluation_fail |-> "outcome",
      session_closed  |-> "outcome",
      info            |-> "none" ]

\* dict.get(key): the mapped value, or None
Get(map, key) == IF key \in DOMAIN map THEN map[key] ELSE None

\* _ALLOWED_TRANSITIONS with OUTCOME given a successor (used to test the claims)
ALLOWED_TRANSITIONS_OutcomeLeaks ==
    [ none     |-> {"continue", "drift", "repair", "failover", "reentry", "outcome"},
      continue |-> {"continue", "drift", "repair", "failover", "outcome"},
      drift    |-> {"repair", "failover", "continue"},
      repair   |-> {"reentry", "continue", "failover"},
      reentry  |-> {"continue", "outcome"},
      failover |-> {"reentry", "continue", "outcome"},
      outcome  |-> {"continue"} ]

\* _ALLOWED_TRANSITIONS with the repair -> reentry edge lost
ALLOWED_TRANSITIONS_NoReentry ==
    [ none     |-> {"continue", "drift", "repair", "failover", "reentry", "outcome"},
      continue |-> {"continue", "drift", "repair", "failover", "outcome"},
      drift    |-> {"repair", "failover", "continue"},
      repair   |-> {"continue", "failover"},
      reentry  |-> {"continue", "outcome"},
      failover |-> {"reentry", "continue", "outcome"},
      outcome  |-> {} ]

\* _ALLOWED_TRANSITIONS
ALLOWED_TRANSITIONS ==
    [ none     |-> {"continue", "drift", "repair", "failover", "reentry", "outcome"},
      continue |-> {"continue", "drift", "repair", "failover", "outcome"},
      drift    |-> {"repair", "failover", "continue"},
      repair   |-> {"reentry", "continue", "failover"},
      reentry  |-> {"continue", "outcome"},
      failover |-> {"reentry", "continue", "outcome"},
      outcome  |-> {} ]

(***************************************************************************)
(* Inputs offered to apply_event.                                          *)
(***************************************************************************)
\* event_type values: MUST-mapped, SHOULD-mapped and an unmapped (MAY) type
EventTypes ==
    { "drift_detected", "drift_escalated", "repair_triggered",
      "reentry_observed", "continue_allowed", "failover_triggered",
      "evaluation_pass", "session_closed", "info", "latency_spike" }

\* pld.phase values: every valid phase and one string that is no phase
PhaseStrings == Phase \cup {"bogus"}

\* pld.code values: the reserved system-init code and an ordinary code
PldCodes == {"SYS_session_init", "C0_normal"}

TurnSequences == 1..MaxTurn

Events ==
    [ event_type : EventTypes, phase : PhaseStrings,
      code : PldCodes, turn_sequence : TurnSequences ]

(***************************************************************************)
(* State.                                                                  *)
(***************************************************************************)
VARIABLES
    state,       \* PLDStateMachine._state, a StateSnapshot
    event,       \* the event of the last apply_event call
    reason,      \* StateTransition.reason of the last call
    violations,  \* StateTransition.violations of the last call
    lifecycle,   \* how many events of the canonical lifecycle have been
                 \* applied, in order, to the fresh machine (Off once another was)
    respected    \* whether every event applied so far kept to the phase rules

\* the variables of the state machine
smVars == <<state, event, reason, violations, lifecycle, respected>>

VARIABLES
    orch,            \* the FailoverOrchestrator: max_attempts and its policies
    fstate,          \* the caller's current FailoverState
    fresult,         \* the FailoverStepResult of the last run_step call
    calls,           \* run_step calls made since initialize
    strategy_calls,  \* strategy.execute calls made since initialize
    policy_calls,    \* reconciliation_policy.evaluate calls since initialize
    outcomes         \* the reconciliation outcome of each call, in call order

\* the variables of the failover orchestrator
foVars == <<orch, fstate, fresult, calls, strategy_calls, policy_calls, outcomes>>

VARIABLES
    callers,         \* concurrent run_step callers: position, state read, result
    threads,         \* concurrent apply_event calls: position, event, prev read
    discipline,      \* whether the apply_event callers keep to a single writer
    start            \* the machine's state before the concurrent calls

\* the variables of the concurrent callers
ccVars == <<callers, threads, discipline, start>>

VARIABLES
    transcript,      \* the events handed to evaluate_sequence_rules, in order
    results          \* its SequenceValidationResult list, by session_id

\* the variables of the sequence rule checker
sqVars == <<transcript, results>>

VARIABLES
    call,            \* the function called last and the arguments it was given
    ret              \* what that call returned

\* the variables of the stateless functions (classifier, validators, bridge)
fnVars == <<call, ret>>

VARIABLES
    events_by_session,  \* SessionTraceBuffer._events_by_session, in key order
    drains,             \* concurrent drain calls: position and local variables
    exported,           \* the exporter calls made so far: session_id and events
    appended            \* how many append calls have stored their event

\* the variables of the session trace buffer
bfVars == <<events_by_session, drains, exported, appended>>

vars == <<smVars, foVars, ccVars, sqVars, fnVars, bfVars>>

\* a part that is not running: its variables stay at None
smParked ==
    /\ state = None /\ event = None /\ reason = None
    /\ violations = None /\ lifecycle = None /\ respected = None

foParked ==
    /\ orch = None /\ fstate = None /\ fresult = None
    /\ calls = None /\ strategy_calls = None /\ policy_calls = None
    /\ outcomes = None

ccParked ==
    /\ callers = None /\ threads = None
    /\ discipline = None /\ start = None

sqParked == transcript = None /\ results = None

fnParked == call = None /\ ret = None

bfParked ==
    /\ events_by_session = None /\ drains = None
    /\ exported = None /\ appended = None

\* StateSnapshot(...)
StateSnapshot(current_phase, session_open, last_event_type, last_pld_code, last_turn_sequence, failover_active) ==
    [ current_phase      |-> current_phase,
      session_open       |-> session_open,
      last_event_type    |-> last_event_type,
      last_pld_code      |-> last_pld_code,
      last_turn_sequence |-> last_turn_sequence,
      failover_active    |-> failover_active ]

(***************************************************************************)
(* _next_state_from_event, block by block.                                 *)
(***************************************************************************)
\* invalid_transition: the event's phase is a phase and no allowed successor
InvalidTransition(current_phase, phase) ==
    /\ phase # None
    /\ phase \notin ALLOWED_TRANSITIONS[current_phase]

\* the violation appended when invalid_transition is set
TransitionViolations(current_phase, phase, viols) ==
    IF InvalidTransition(current_phase, phase)
    THEN Append(viols, <<"invalid_transition", current_phase, phase>>)
    ELSE viols

\* Terminal block that forgets to clear failover_active (used to test the claims)
SessionClosed_KeepsFailover(prev_state, phase, event_type, code, turn_sequence) ==
    StateSnapshot(
        IF phase # None /\ ~InvalidTransition(prev_state.current_phase, phase)
        THEN phase ELSE prev_state.current_phase,
        FALSE, event_type, code, turn_sequence, prev_state.failover_active)

\* --- Terminal state check (session_closed has highest precedence) ---
SessionClosed(prev_state, phase, event_type, code, turn_sequence) ==
    StateSnapshot(
        IF phase # None /\ ~InvalidTransition(prev_state.current_phase, phase)
        THEN phase ELSE prev_state.current_phase,
        FALSE, event_type, code, turn_sequence, FALSE)

\* Session initialization that opens the session on every first event
\* (used to test the claims)
SessionInit_OpensAlways(prev_state, event_type, code, turn_sequence, viols) ==
    IF ~prev_state.session_open /\ turn_sequence = 1
    THEN IF event_type = "continue_allowed"
         THEN [ session_open |-> TRUE, current_phase |-> "continue",
                reason |-> "session_initialized", violations |-> viols ]
         ELSE IF event_type = "info" /\ code = "SYS_session_init"
         THEN [ session_open |-> TRUE, current_phase |-> prev_state.current_phase,
                reason |-> "session_initialized_via_system", violations |-> viols ]
         ELSE [ session_open |-> TRUE, current_phase |-> prev_state.current_phase,
                reason |-> "invalid_session_start",
                violations |-> Append(viols,
                    <<"invalid_session_init_event", event_type, code>>) ]
    ELSE [ session_open |-> prev_state.session_open,
           current_phase |-> prev_state.current_phase,
           reason |-> "transition", violations |-> viols ]

\* --- Session Initialization (RUN-006) ---
\* the locals session_open, current_phase, reason and the violation list
\* after the block
SessionInit(prev_state, event_type, code, turn_sequence, viols) ==
    IF ~prev_state.session_open /\ turn_sequence = 1
    THEN IF event_type = "continue_allowed"
         THEN [ session_open |-> TRUE, current_phase |-> "continue",
                reason |-> "session_initialized", violations |-> viols ]
         ELSE IF event_type = "info" /\ code = "SYS_session_init"
         THEN [ session_open |-> TRUE, current_phase |-> prev_state.current_phase,
                reason |-> "session_initialized_via_system", violations |-> viols ]
         ELSE [ session_open |-> FALSE, current_phase |-> prev_state.current_phase,
                reason |-> "invalid_session_start",
                violations |-> Append(viols,
                    <<"invalid_session_init_event", event_type, code>>) ]
    ELSE [ session_open |-> prev_state.session_open,
           current_phase |-> prev_state.current_phase,
           reason |-> "transition", violations |-> viols ]

\* Failover entry gated by the transition table (used to test the claims)
FailoverTriggered_Gated(prev_state, session_open, event_type, code, turn_sequence) ==
    StateSnapshot(
        IF InvalidTransition(prev_state.current_phase, "failover")
        THEN prev_state.current_phase ELSE "failover",
        session_open, event_type, code, turn_sequence,
        ~InvalidTransition(prev_state.current_phase, "failover")
            \/ prev_state.failover_active)

\* --- Failover Handling (RUN-008) ---: failover_triggered with phase failover
FailoverTriggered(prev_state, session_open, event_type, code, turn_sequence) ==
    StateSnapshot("failover", session_open, event_type, code, turn_sequence, TRUE)

\* Failover-active block in which a drift event is applied like any other
\* event (used to test the claims)
FailoverActive_DriftApplied(current_phase, invalid_transition, phase, event_type, viols) ==
    IF event_type = "reentry_observed" /\ phase = "reentry"
    THEN [ failover_active |-> FALSE, current_phase |-> "reentry",
           reason |-> "failover_recovered_via_reentry", violations |-> viols ]
    ELSE IF event_type = "continue_allowed" /\ phase = "continue"
    THEN [ failover_active |-> FALSE, current_phase |-> "continue",
           reason |-> "failover_recovered_via_continue", violations |-> viols ]
    ELSE IF phase # None /\ ~invalid_transition
    THEN [ failover_active |-> TRUE, current_phase |-> phase,
           reason |-> "failover_nonterminal_transition", violations |-> viols ]
    ELSE [ failover_active |-> TRUE, current_phase |-> current_phase,
           reason |-> "failover_context", violations |-> viols ]

\* Failover-active block whose recovery branches are gated by the transition
\* table (used to test the claims)
FailoverActive_RecoveryGated(current_phase, invalid_transition, phase, event_type, viols) ==
    IF event_type \in {"drift_detected", "drift_escalated"} /\ phase = "drift"
    THEN [ failover_active |-> TRUE, current_phase |-> current_phase,
           reason |-> "invalid_failover_state",
           violations |-> Append(viols,
               <<"failover_rule_violation", "drift_after_failover">>) ]
    ELSE IF phase # None /\ ~invalid_transition
    THEN [ failover_active |->
               ~(\/ event_type = "reentry_observed" /\ phase = "reentry"
                 \/ event_type = "continue_allowed" /\ phase = "continue"),
           current_phase |-> phase,
           reason |-> "failover_nonterminal_transition", violations |-> viols ]
    ELSE [ failover_active |-> TRUE, current_phase |-> current_phase,
           reason |-> "failover_context", violations |-> viols ]

\* Failover-active block whose last branch adopts the phase without looking
\* at the transition table (used to test the claims)
FailoverActive_Ungated(current_phase, invalid_transition, phase, event_type, viols) ==
    IF event_type = "reentry_observed" /\ phase = "reentry"
    THEN [ failover_active |-> FALSE, current_phase |-> "reentry",
           reason |-> "failover_recovered_via_reentry", violations |-> viols ]
    ELSE IF event_type = "continue_allowed" /\ phase = "continue"
    THEN [ failover_active |-> FALSE, current_phase |-> "continue",
           reason |-> "failover_recovered_via_continue", violations |-> viols ]
    ELSE IF event_type \in {"drift_detected", "drift_escalated"} /\ phase = "drift"
    THEN [ failover_active |-> TRUE, current_phase |-> current_phase,
           reason |-> "invalid_failover_state",
           violations |-> Append(viols,
               <<"failover_rule_violation", "drift_after_failover">>) ]
    ELSE IF phase # None
    THEN [ failover_active |-> TRUE, current_phase |-> phase,
           reason |-> "failover_nonterminal_transition", violations |-> viols ]
    ELSE [ failover_active |-> TRUE, current_phase |-> current_phase,
           reason |-> "failover_context", violations |-> viols ]

\* Failover-active block in which an event that moves the phase also ends
\* failover (used to test the claims)
FailoverActive_ClearedOnLeave(current_phase, invalid_transition, phase, event_type, viols) ==
    IF event_type = "reentry_observed" /\ phase = "reentry"
    THEN [ failover_active |-> FALSE, current_phase |-> "reentry",
           reason |-> "failover_recovered_via_reentry", violations |-> viols ]
    ELSE IF event_type = "continue_allowed" /\ phase = "continue"
    THEN [ failover_active |-> FALSE, current_phase |-> "continue",
           reason |-> "failover_recovered_via_continue", violations |-> viols ]
    ELSE IF event_type \in {"drift_detected", "drift_escalated"} /\ phase = "drift"
    THEN [ failover_active |-> TRUE, current_phase |-> current_phase,
           reason |-> "invalid_failover_state",
           violations |-> Append(viols,
               <<"failover_rule_violation", "drift_after_failover">>) ]
    ELSE IF phase # None /\ ~invalid_transition
    THEN [ failover_active |-> FALSE, current_phase |-> phase,
           reason |-> "failover_nonterminal_transition", violations |-> viols ]
    ELSE [ failover_active |-> TRUE, current_phase |-> current_phase,
           reason |-> "failover_context", violations |-> viols ]

\* `if failover_active:` block; current_phase and viols are the locals as the
\* session-initialization block left them (every branch overwrites reason)
FailoverActive(current_phase, invalid_transition, phase, event_type, viols) ==
    IF event_type = "reentry_observed" /\ phase = "reentry"
    THEN [ failover_active |-> FALSE, current_phase |-> "reentry",
           reason |-> "failover_recovered_via_reentry", violations |-> viols ]
    ELSE IF event_type = "continue_allowed" /\ phase = "continue"
    THEN [ failover_active |-> FALSE, current_phase |-> "continue",
           reason |-> "failover_recovered_via_continue", violations |-> viols ]
    ELSE IF event_type \in {"drift_detected", "drift_escalated"} /\ phase = "drift"
    THEN [ failover_active |-> TRUE, current_phase |-> current_phase,
           reason |-> "invalid_failover_state",
           violations |-> Append(viols,
               <<"failover_rule_violation", "drift_after_failover">>) ]
    ELSE IF phase # None /\ ~invalid_transition
    THEN [ failover_active |-> TRUE, current_phase |-> phase,
           reason |-> "failover_nonterminal_transition", violations |-> viols ]
    ELSE [ failover_active |-> TRUE, current_phase |-> current_phase,
           reason |-> "failover_context", violations |-> viols ]

\* Normal transition that adopts every valid phase (used to test the claims)
NormalTransition_Ungated(current_phase, invalid_transition, phase) ==
    IF phase # None THEN phase ELSE current_phase

\* ---- Normal Transition ----
NormalTransition(current_phase, invalid_transition, phase) ==
    IF phase # None /\ ~invalid_transition THEN phase ELSE current_phase

\* PLDStateMachine._next_state_from_event: (next state, reason), with the
\* violation list it appended to
next_state_from_event(prev_state, phase, event_type, code, turn_sequence, viols) ==
    LET invalid_transition == InvalidTransition(prev_state.current_phase, phase)
        v1   == TransitionViolations(prev_state.current_phase, phase, viols)
        init == SessionInit(prev_state, event_type, code, turn_sequence, v1)
        fo   == FailoverActive(init.current_phase, invalid_transition, phase,
                               event_type, init.violations)
    IN  IF event_type = "session_closed"
        THEN [ next_state |-> SessionClosed(prev_state, phase, event_type, code,
                                            turn_sequence),
               reason |-> "session_terminated", violations |-> v1 ]
        ELSE IF event_type = "failover_triggered" /\ phase = "failover"
        THEN [ next_state |-> FailoverTriggered(prev_state, init.session_open,
                                                event_type, code, turn_sequence),
               reason |-> "failover_active", violations |-> init.violations ]
        ELSE IF prev_state.failover_active
        THEN [ next_state |-> StateSnapshot(fo.current_phase, init.session_open,
                                  event_type, code, turn_sequence,
                                  fo.failover_active),
               reason |-> fo.reason, violations |-> fo.violations ]
        ELSE [ next_state |-> StateSnapshot(
                                  NormalTransition(init.current_phase,
                                                   invalid_transition, phase),
                                  init.session_open, event_type, code,
                                  turn_sequence, prev_state.failover_active),
               reason |-> init.reason, violations |-> init.violations ]

(***************************************************************************)
(* apply_event.                                                            *)
(***************************************************************************)
\* the violations apply_event records before the transition logic runs
PhaseViolations(ev) ==
    LET phase == IF ev.phase \in VALID_PHASES THEN ev.phase ELSE None
        expected_must   == Get(MUST_PHASE_MAP, ev.event_type)
        expected_should == Get(SHOULD_PHASE_MAP, ev.event_type)
        v0 == IF ev.phase \notin VALID_PHASES
              THEN << <<"invalid_phase_value", ev.phase>> >>
              ELSE << >>
        v1 == IF expected_must # None /\ phase # expected_must
              THEN Append(v0, <<"must_phase_mismatch", ev.event_type,
                                expected_must, ev.phase>>)
              ELSE v0
    IN  IF expected_should # None /\ phase # expected_should
        THEN Append(v1, <<"should_phase_mismatch", ev.event_type,
                          expected_should, ev.phase>>)
        ELSE v1

\* The canonical lifecycle of one session: event type and phase of each step
CanonicalLifecycle ==
    << [event_type |-> "continue_allowed", phase |-> "continue"],
       [event_type |-> "drift_detected",   phase |-> "drift"],
       [event_type |-> "repair_triggered", phase |-> "repair"],
       [event_type |-> "reentry_observed", phase |-> "reentry"],
       [event_type |-> "session_closed",   phase |-> "outcome"] >>

\* lifecycle value once an event outside the canonical lifecycle was applied
Off == Len(CanonicalLifecycle) + 1

\* Whether ev is step k of the canonical lifecycle: turn 1 opens it and the
\* later steps carry later turns
IsCanonicalStep(ev, k) ==
    /\ k \in 1..Len(CanonicalLifecycle)
    /\ ev.event_type = CanonicalLifecycle[k].event_type
    /\ ev.phase = CanonicalLifecycle[k].phase
    /\ (k = 1) = (ev.turn_sequence = 1)

\* Whether ev keeps to the phase rules in state s: the first event of the
\* machine is continue_allowed/continue at turn_sequence 1, the phase is the
\* one mapped to the event type (where one is mapped) and it is an allowed
\* successor of the current phase
RespectsRules(s, ev) ==
    /\ (s.last_event_type = None
          => /\ ev.event_type = "continue_allowed"
             /\ ev.phase = "continue"
             /\ ev.turn_sequence = 1)
    /\ Get(MUST_PHASE_MAP, ev.event_type) \in {None, ev.phase}
    /\ Get(SHOULD_PHASE_MAP, ev.event_type) \in {None, ev.phase}
    /\ ev.phase \in VALID_PHASES
    /\ ev.phase \in ALLOWED_TRANSITIONS[s.current_phase]

\* PLDStateMachine.apply_event
apply_event(ev) ==
    LET prev  == state
        phase == IF ev.phase \in VALID_PHASES THEN ev.phase ELSE None
        res   == next_state_from_event(prev, phase, ev.event_type, ev.code,
                                       ev.turn_sequence, PhaseViolations(ev))
    IN  /\ state' = res.next_state
        /\ reason' = res.reason
        /\ violations' = res.violations
        /\ event' = ev
        /\ lifecycle' = IF lifecycle # Off /\ IsCanonicalStep(ev, lifecycle + 1)
                        THEN lifecycle + 1 ELSE Off
        /\ respected' = (respected /\ RespectsRules(prev, ev))
        /\ UNCHANGED <<foVars, ccVars, sqVars, fnVars, bfVars>>

\* PLDStateMachine.__init__
Init ==
    /\ state = StateSnapshot("none", FALSE, None, None, NoTurn, FALSE)
    /\ event = [event_type |-> None, phase |-> None, code |-> None,
                turn_sequence |-> NoTurn]
    /\ reason = None
    /\ violations = << >>
    /\ lifecycle = 0
    /\ respected = TRUE
    /\ foParked /\ ccParked /\ sqParked /\ fnParked /\ bfParked

Next == \E ev \in Events : apply_event(ev)

Spec == Init /\ [][Next]_vars

(***************************************************************************)
(* Vocabulary of the claims.                                               *)
(***************************************************************************)
\* the violation v is in the list viols
Has(viols, v) == \E i \in 1..Len(viols) : viols[i] = v

\* ev is failover_triggered carrying phase failover
IsFailoverEntry(ev) == ev.event_type = "failover_triggered" /\ ev.phase = "failover"

\* ev is a recovery event: reentry_observed/reentry or continue_allowed/continue
IsRecovery(ev) ==
    \/ ev.event_type = "reentry_observed" /\ ev.phase = "reentry"
    \/ ev.event_type = "continue_allowed" /\ ev.phase = "continue"

\* ev is a drift event: drift_detected or drift_escalated with phase drift
IsDrift(ev) ==
    ev.event_type \in {"drift_detected", "drift_escalated"} /\ ev.phase = "drift"

\* the session-init rule applies to ev in state s
InitApplies(s, ev) == ~s.session_open /\ ev.turn_sequence = 1

\* the pair (from, to) is in the allowed-transition table of the specification
Legal(from, to) ==
    to \in CASE from = "none"     -> {"continue", "drift", "repair", "failover",
                                      "reentry", "outcome"}
             [] from = "continue" -> {"continue", "drift", "repair", "failover",
                                      "outcome"}
             [] from = "drift"    -> {"repair", "failover", "continue"}
             [] from = "repair"   -> {"reentry", "continue", "failover"}
             [] from = "reentry"  -> {"continue", "outcome"}
             [] from = "failover" -> {"reentry", "continue", "outcome"}
             [] from = "outcome"  -> {}

(***************************************************************************)
(* C1. Outcome is terminal.                                                *)
(***************************************************************************)
\* C1 (as stated): once the current phase is outcome, no later apply_event
\* call changes the current phase.
C1_OutcomeNeverLeft ==
    [][state.current_phase = "outcome" => state'.current_phase = "outcome"]_vars

\* C1 (amended): once the current phase is outcome, an apply_event call changes
\* it only through one of the three rules that do not consult the transition
\* table: failover_triggered with phase failover (to failover), a recovery
\* event while failover is active (to reentry or continue), or continue_allowed
\* at turn_sequence 1 while the session is not open (to continue); every other
\* event leaves the phase at outcome.
C1_OutcomeLeftOnlyByBypass ==
    [][state.current_phase = "outcome" /\ state'.current_phase # "outcome" =>
        \/ IsFailoverEntry(event') /\ state'.current_phase = "failover"
        \/ /\ state.failover_active
           /\ IsRecovery(event')
           /\ state'.current_phase = event'.phase
        \/ /\ InitApplies(state, event')
           /\ event'.event_type = "continue_allowed"
           /\ state'.current_phase = "continue"]_vars

\* C1 witness: an event carrying phase continue was applied in phase outcome
\* through the table-gated path and the phase stayed outcome.
C1_Witness ==
    /\ state.current_phase = "outcome"
    /\ event.phase = "continue"
    /\ reason = "transition"
    /\ Has(violations, <<"invalid_transition", "outcome", "continue">>)

(***************************************************************************)
(* C2. The normal case is gated by the transition table.                   *)
(***************************************************************************)
\* the normal case of apply_event for event ev in state s
NormalCase(s, ev) ==
    /\ ev.event_type # "session_closed"
    /\ ~IsFailoverEntry(ev)
    /\ ~s.failover_active
    /\ ~InitApplies(s, ev)

\* C2 (as stated): in the normal case the event's phase is adopted if the pair
\* (current phase, event phase) is in the table; otherwise the phase is left
\* unchanged and an invalid_transition violation is recorded.
C2_NormalCaseGated ==
    [][NormalCase(state, event') =>
        IF Legal(state.current_phase, event'.phase)
        THEN /\ state'.current_phase = event'.phase
             /\ ~Has(violations', <<"invalid_transition", state.current_phase,
                                    event'.phase>>)
        ELSE /\ state'.current_phase = state.current_phase
             /\ Has(violations', <<"invalid_transition", state.current_phase,
                                   event'.phase>>)]_vars

\* C2 (amended): as stated for an event whose phase is a valid phase value; an
\* event whose phase is no valid phase value leaves the phase unchanged and
\* records invalid_phase_value, and no invalid_transition.
C2_NormalCaseGatedValidPhase ==
    [][NormalCase(state, event') =>
        IF event'.phase \notin Phase
        THEN /\ state'.current_phase = state.current_phase
             /\ Has(violations', <<"invalid_phase_value", event'.phase>>)
             /\ ~Has(violations', <<"invalid_transition", state.current_phase,
                                    event'.phase>>)
        ELSE IF Legal(state.current_phase, event'.phase)
        THEN /\ state'.current_phase = event'.phase
             /\ ~Has(violations', <<"invalid_transition", state.current_phase,
                                    event'.phase>>)
        ELSE /\ state'.current_phase = state.current_phase
             /\ Has(violations', <<"invalid_transition", state.current_phase,
                                   event'.phase>>)]_vars

\* C2 witness: from phase drift an event with phase outcome was applied in the
\* normal case; the phase is still drift and invalid_transition is recorded.
C2_Witness ==
    /\ state.current_phase = "drift"
    /\ state.session_open
    /\ ~state.failover_active
    /\ event.phase = "outcome"
    /\ event.event_type = "evaluation_pass"
    /\ reason = "transition"
    /\ violations = << <<"invalid_transition", "drift", "outcome">> >>

(***************************************************************************)
(* C3. session_closed always closes the session.                           *)
(***************************************************************************)
\* C3: session_closed yields session_open = FALSE and failover_active = FALSE
\* and sets the phase to the event's phase when that transition is legal,
\* leaving it unchanged otherwise; the session-init and failover rules do not
\* override this.
C3_SessionClosedWins ==
    [][event'.event_type = "session_closed" =>
        /\ ~state'.session_open
        /\ ~state'.failover_active
        /\ reason' = "session_terminated"
        /\ state'.current_phase =
               IF Legal(state.current_phase, event'.phase)
               THEN event'.phase ELSE state.current_phase
        /\ ~Has(violations', <<"invalid_session_init_event", "session_closed",
                               event'.code>>)]_vars

\* C3 witness: session_closed with phase failover was applied at turn 1 in
\* phase drift (a legal pair, and the shape of a failover entry): the session is
\* closed, failover is not active and the phase was adopted.
C3_Witness ==
    /\ event.event_type = "session_closed"
    /\ event.phase = "failover"
    /\ event.turn_sequence = 1
    /\ state.current_phase = "failover"
    /\ ~state.session_open
    /\ ~state.failover_active
    /\ violations = << <<"should_phase_mismatch", "session_closed", "outcome",
                         "failover">> >>

(***************************************************************************)
(* C4. Failover entry is not gated by the transition table.                *)
(***************************************************************************)
\* C4: failover_triggered carrying phase failover sets failover_active = TRUE
\* and current phase = failover from every current phase, the phases reentry,
\* failover and outcome included.
C4_FailoverEntryUnconditional ==
    [][IsFailoverEntry(event') =>
        /\ state'.failover_active
        /\ state'.current_phase = "failover"
        /\ reason' = "failover_active"]_vars

\* C4 witness: failover was entered from outcome, which has no successor in
\* the table.
C4_Witness ==
    /\ IsFailoverEntry(event)
    /\ state.current_phase = "failover"
    /\ state.failover_active
    /\ Has(violations, <<"invalid_transition", "outcome", "failover">>)

(***************************************************************************)
(* C5. Recovery events end failover.                                       *)
(***************************************************************************)
\* C5: whenever failover_active is true, reentry_observed with phase reentry
\* or continue_allowed with phase continue clears failover_active and sets the
\* current phase to reentry respectively continue, whatever the phase was.
C5_RecoveryClearsFailover ==
    [][state.failover_active /\ IsRecovery(event') =>
        /\ ~state'.failover_active
        /\ state'.current_phase = event'.phase
        /\ reason' = IF event'.event_type = "reentry_observed"
                     THEN "failover_recovered_via_reentry"
                     ELSE "failover_recovered_via_continue"]_vars

\* C5 witness: failover was recovered via reentry from phase outcome, from
\* which reentry is no allowed successor.
C5_Witness ==
    /\ reason = "failover_recovered_via_reentry"
    /\ state.current_phase = "reentry"
    /\ ~state.failover_active
    /\ Has(violations, <<"invalid_transition", "outcome", "reentry">>)

(***************************************************************************)
(* C6. Drift while failover is active.                                     *)
(***************************************************************************)
\* C6: while failover_active is true, a drift event (drift_detected or
\* drift_escalated with phase drift) records a drift-after-failover violation
\* and leaves the current phase and failover_active unchanged.
C6_DriftAfterFailover ==
    [][state.failover_active /\ IsDrift(event') =>
        /\ Has(violations', <<"failover_rule_violation", "drift_after_failover">>)
        /\ reason' = "invalid_failover_state"
        /\ state'.current_phase = state.current_phase
        /\ state'.failover_active]_vars

\* C6 witness: drift_escalated was applied while failover was active.
C6_Witness ==
    /\ event.event_type = "drift_escalated"
    /\ event.phase = "drift"
    /\ reason = "invalid_failover_state"
    /\ state.failover_active
    /\ state.current_phase = "failover"
    /\ Has(violations, <<"failover_rule_violation", "drift_after_failover">>)

(***************************************************************************)
(* C7. Other events while failover is active.                              *)
(***************************************************************************)
\* ev is neither a recovery event, a drift event, session_closed nor
\* failover_triggered
IsOtherFailoverEvent(ev) ==
    /\ ~IsRecovery(ev)
    /\ ~IsDrift(ev)
    /\ ev.event_type \notin {"session_closed", "failover_triggered"}

\* C7 (as stated): while failover_active is true, such an event changes the
\* current phase only if its phase is a legal successor; otherwise the phase
\* is unchanged and the step is reported as a failover-context step; in both
\* cases failover_active stays true.
C7_FailoverOtherGated ==
    [][state.failover_active /\ IsOtherFailoverEvent(event') =>
        /\ state'.failover_active
        /\ IF Legal(state.current_phase, event'.phase)
           THEN state'.current_phase = event'.phase
           ELSE /\ state'.current_phase = state.current_phase
                /\ reason' = "failover_context"]_vars

\* C7 (amended): as stated, except that a continue_allowed event arriving at
\* turn_sequence 1 while the session is not open, whose phase is no legal
\* successor, is moved to phase continue by the session-init rule (and is
\* still reported as a failover-context step).
C7_FailoverOtherGatedButInit ==
    [][state.failover_active /\ IsOtherFailoverEvent(event') =>
        /\ state'.failover_active
        /\ IF Legal(state.current_phase, event'.phase)
           THEN /\ state'.current_phase = event'.phase
                /\ reason' = "failover_nonterminal_transition"
           ELSE /\ reason' = "failover_context"
                /\ state'.current_phase =
                       IF /\ InitApplies(state, event')
                          /\ event'.event_type = "continue_allowed"
                       THEN "continue" ELSE state.current_phase]_vars

\* C7 witness: while failover was active in phase failover, an event with
\* phase drift (no legal successor) was applied as a failover-context step.
C7_Witness ==
    /\ state.failover_active
    /\ state.current_phase = "failover"
    /\ reason = "failover_context"
    /\ event.event_type = "latency_spike"
    /\ violations = << <<"invalid_transition", "failover", "drift">> >>

(***************************************************************************)
(* C8. Legal first events.                                                 *)
(***************************************************************************)
\* ev is an info event carrying the reserved system-init code
IsSystemInit(ev) == ev.event_type = "info" /\ ev.code = "SYS_session_init"

\* C8 (as stated): when the session is not open and turn_sequence = 1,
\* continue_allowed opens the session and leaves the phase at continue, info
\* with the system-init code opens the session without changing the phase,
\* and each of them, carrying the phase mapped to its event type, is applied
\* with no violation recorded.
C8_LegalFirstEvents ==
    [][InitApplies(state, event') =>
        /\ (event'.event_type = "continue_allowed" /\ event'.phase = "continue"
              => /\ state'.session_open
                 /\ state'.current_phase = "continue"
                 /\ violations' = << >>)
        /\ (IsSystemInit(event') /\ event'.phase = "none"
              => /\ state'.session_open
                 /\ state'.current_phase = state.current_phase
                 /\ violations' = << >>)]_vars

(***************************************************************************)
(* C9. Other first events.                                                 *)
(***************************************************************************)
\* C9: when the session is not open and turn_sequence = 1, every event other
\* than continue_allowed, info with the system-init code, or session_closed
\* records an invalid-session-init violation and leaves session_open = FALSE.
C9_InvalidFirstEvent ==
    [][(/\ InitApplies(state, event')
        /\ event'.event_type \notin {"continue_allowed", "session_closed"}
        /\ ~IsSystemInit(event'))
       => /\ Has(violations', <<"invalid_session_init_event",
                                event'.event_type, event'.code>>)
          /\ ~state'.session_open]_vars

\* C9 witness: drift_detected was applied as the first event of a session
\* that is not open.
C9_Witness ==
    /\ event.event_type = "drift_detected"
    /\ event.phase = "drift"
    /\ event.turn_sequence = 1
    /\ reason = "invalid_session_start"
    /\ ~state.session_open
    /\ violations = << <<"invalid_session_init_event", "drift_detected",
                         "C0_normal">> >>

(***************************************************************************)
(* C10. The canonical lifecycle.                                           *)
(***************************************************************************)
\* C10: applying the canonical lifecycle continue_allowed/continue (turn 1),
\* drift_detected/drift, repair_triggered/repair, reentry_observed/reentry,
\* session_closed/outcome to a fresh machine yields no violation at any step,
\* the phases continue, drift, repair, reentry, outcome in turn, and the final
\* state phase = outcome, session_open = FALSE.
C10_CanonicalLifecycle ==
    lifecycle \in 1..Len(CanonicalLifecycle) =>
        /\ violations = << >>
        /\ state.current_phase = CanonicalLifecycle[lifecycle].phase
        /\ state.last_event_type = CanonicalLifecycle[lifecycle].event_type
        /\ state.session_open = (lifecycle < Len(CanonicalLifecycle))
        /\ ~state.failover_active

\* C10 witness: the whole canonical lifecycle has been applied.
C10_Witness ==
    /\ lifecycle = Len(CanonicalLifecycle)
    /\ state.current_phase = "outcome"
    /\ ~state.session_open
    /\ reason = "session_terminated"

(***************************************************************************)
(* Part 2: the failover orchestrator.                                      *)
(***************************************************************************)
\* max_attempts of the modelled orchestrators is in 0..MaxAttempts
MaxAttempts == 3

\* run_step calls modelled after initialize: enough to pass max_attempts
MaxCalls == MaxAttempts + 2

\* class FailoverStatus
FailoverStatus == {"idle", "active", "exhausted"}

\* class ReconciliationOutcome
ReconciliationOutcome == {"continue", "recover", "finalize", "unknown"}

\* A float m * 2^e, with m odd (or zero): the floats of the model need few
\* mantissa bits, so that products of them are exact
Float(m, e) == [ mant |-> m, exp |-> e ]

\* An exception raised instead of a return value
Raised(error) == [ raised |-> error ]

\* backoff_delay = None
NoDelay == [ delay |-> None ]

\* max_seconds = None
NoCap == [ cap |-> None ]

\* raise ValueError("attempt MUST be >= 1")
ValueError == Raised("ValueError")

\* OverflowError: (34, 'Numerical result out of range'), raised by float ** int
OverflowError == Raised("OverflowError")

\* sys.float_info.max_exp: a float is below 2^1024
FloatMaxExp == 1024

\* float('inf')
Inf == Float(1, FloatMaxExp)

\* FailoverState(...)
FailoverState(session_id, attempt, status, last_error, metadata) ==
    [ session_id |-> session_id, attempt |-> attempt, status |-> status,
      last_error |-> last_error, metadata |-> metadata ]

\* ReconciliationResult(outcome, reason_code); detail is diagnostic only
ReconciliationResult(outcome, reason_code) ==
    [ outcome |-> outcome, reason_code |-> reason_code ]

\* FailoverStepResult(...)
FailoverStepResult(st, reconciliation, backoff_delay) ==
    [ state |-> st, reconciliation |-> reconciliation,
      backoff_delay |-> backoff_delay ]

\* 2^n for a small n >= 0
RECURSIVE Pow2(_)
Pow2(n) == IF n <= 0 THEN 1 ELSE 2 * Pow2(n - 1)

\* The number of bits of m >= 1
RECURSIVE BitLength(_)
BitLength(m) == IF m <= 1 THEN 1 ELSE 1 + BitLength(m \div 2)

\* x >= 2^1024: beyond the range of a float
OutOfRange(x) == x.mant > 0 /\ x.exp + BitLength(x.mant) - 1 >= FloatMaxExp

\* a <= b for two floats; mantissas are below 2^10
FloatLeq(a, b) ==
    LET d == a.exp - b.exp
    IN  IF a.mant = 0 THEN TRUE
        ELSE IF b.mant = 0 THEN FALSE
        ELSE IF d >= 0 THEN (d <= 20 /\ a.mant * Pow2(d) <= b.mant)
        ELSE (-d > 20 \/ a.mant <= b.mant * Pow2(-d))

\* factor ** n for a factor that is a power of two and n >= 0: pow raises
\* OverflowError when the result is out of range
FloatPow(factor, n) ==
    LET power == Float(1, factor.exp * n)
    IN  IF OutOfRange(power) THEN OverflowError ELSE power

\* a * b: an out-of-range product is inf
FloatMul(a, b) ==
    LET product == Float(a.mant * b.mant, a.exp + b.exp)
    IN  IF OutOfRange(product) THEN Inf ELSE product

\* min(delay, max_seconds): the first argument unless the second is smaller
FloatMin(a, b) == IF FloatLeq(a, b) THEN a ELSE b

\* ConstantBackoff.next_delay
ConstantNextDelay(self, attempt) ==
    IF attempt < 1 THEN ValueError ELSE self.delay_seconds

\* ExponentialBackoff.next_delay
ExponentialNextDelay(self, attempt) ==
    IF attempt < 1 THEN ValueError
    ELSE LET power == FloatPow(self.factor, attempt - 1)
             delay == FloatMul(self.base_seconds, power)
         IN  IF power = OverflowError THEN OverflowError
             ELSE IF self.max_seconds # NoCap THEN FloatMin(delay, self.max_seconds)
             ELSE delay

\* BackoffPolicy.next_delay of the configured policy
next_delay(self, attempt) ==
    IF self.kind = "constant" THEN ConstantNextDelay(self, attempt)
    ELSE ExponentialNextDelay(self, attempt)

\* NoOpReconciliationPolicy.evaluate
NoOpEvaluate(attempt_count) == ReconciliationResult("unknown", "noop")

\* Threshold policy that still continues at the threshold (used to test the claims)
ThresholdEvaluate_ContinueAtThreshold(threshold, attempt_count) ==
    IF attempt_count < 1
    THEN ReconciliationResult("unknown", "invalid_attempt_value")
    ELSE IF attempt_count <= threshold
    THEN ReconciliationResult("continue", "below_threshold")
    ELSE ReconciliationResult("finalize", "exceeded_threshold")

\* ThresholdReconciliationPolicy.evaluate (attempt_count is an int here)
ThresholdEvaluate(threshold, attempt_count) ==
    IF attempt_count < 1
    THEN ReconciliationResult("unknown", "invalid_attempt_value")
    ELSE IF attempt_count < threshold
    THEN ReconciliationResult("continue", "below_threshold")
    ELSE IF attempt_count = threshold
    THEN ReconciliationResult("recover", "threshold_reached")
    ELSE ReconciliationResult("finalize", "exceeded_threshold")

\* reconciliation_policy.evaluate(reconciliation_input): the built-in policies,
\* and a caller-supplied policy whose answer is the environment's choice
evaluate(policy, attempt_count, choice) ==
    IF policy.kind = "noop" THEN NoOpEvaluate(attempt_count)
    ELSE IF policy.kind = "threshold"
    THEN ThresholdEvaluate(policy.threshold, attempt_count)
    ELSE ReconciliationResult(choice, "custom")

\* The exhausted check dropped (used to test the claims)
IsExhausted_Never(st) == FALSE

\* state.status is FailoverStatus.EXHAUSTED
IsExhausted(st) == st.status = "exhausted"

\* The attempt limit off by one (used to test the claims)
AttemptsExceeded_OffByOne(self, st) == st.attempt > self.max_attempts

\* next_attempt > self.max_attempts
AttemptsExceeded(self, st) == st.attempt + 1 > self.max_attempts

\* The exhausted state built with the attempt that was not made (used to test
\* the claims)
ExhaustedState_CountsAttempt(st) ==
    FailoverState(st.session_id, st.attempt + 1, "exhausted", "max_attempts_exceeded", st.metadata)

\* exhausted_state = FailoverState(...)
ExhaustedState(st) ==
    FailoverState(st.session_id, st.attempt, "exhausted", "max_attempts_exceeded", st.metadata)

\* Status mapping that keeps retrying on UNKNOWN (used to test the claims)
NextStatus_UnknownRetries(outcome) ==
    IF outcome = "continue" THEN "active"
    ELSE IF outcome = "recover" THEN "idle"
    ELSE IF outcome = "finalize" THEN "exhausted"
    ELSE "active"

\* next_status from reconciliation.outcome
NextStatus(outcome) ==
    IF outcome = "continue" THEN "active"
    ELSE IF outcome = "recover" THEN "idle"
    ELSE IF outcome = "finalize" THEN "exhausted"
    ELSE "exhausted"

\* backoff_delay from reconciliation.outcome
BackoffDelay(self, outcome, next_attempt) ==
    IF outcome = "continue" THEN next_delay(self.backoff_policy, next_attempt)
    ELSE NoDelay

\* FailoverOrchestrator.run_step: the FailoverStepResult, and whether the call
\* executed the strategy and evaluated the reconciliation policy.
\* strategy_error is what strategy.execute left in context.last_error.
run_step(self, st, runtime_metadata, strategy_error, choice) ==
    IF IsExhausted(st)
    THEN [ result |-> FailoverStepResult(st,
                          ReconciliationResult("finalize", "already_exhausted"),
                          NoDelay),
           executed |-> FALSE, evaluated |-> FALSE ]
    ELSE IF AttemptsExceeded(self, st)
    THEN [ result |-> FailoverStepResult(ExhaustedState(st),
                          ReconciliationResult("finalize", "max_attempts_exceeded"),
                          NoDelay),
           executed |-> FALSE, evaluated |-> FALSE ]
    ELSE LET next_attempt    == st.attempt + 1
             merged_metadata == st.metadata \cup runtime_metadata
             reconciliation  == evaluate(self.reconciliation_policy,
                                         next_attempt, choice)
             next_state      == FailoverState(st.session_id, next_attempt,
                                    NextStatus(reconciliation.outcome),
                                    strategy_error, merged_metadata)
         IN  [ result |-> FailoverStepResult(next_state, reconciliation,
                              BackoffDelay(self, reconciliation.outcome,
                                           next_attempt)),
               executed |-> TRUE, evaluated |-> TRUE ]

\* FailoverOrchestrator.initialize
initialize(session_id, metadata) ==
    FailoverState(session_id, 0, "idle", None, metadata)

(***************************************************************************)
(* The orchestrators and inputs of the model.                              *)
(***************************************************************************)
\* backoff policies: ConstantBackoff(1.0), ExponentialBackoff(1.0, 2.0) and
\* ExponentialBackoff(1.0, 2.0, 3.0)
BackoffPolicies ==
    { [kind |-> "constant", delay_seconds |-> Float(1, 0)],
      [kind |-> "exponential", base_seconds |-> Float(1, 0), factor |-> Float(1, 1),
       max_seconds |-> NoCap],
      [kind |-> "exponential", base_seconds |-> Float(1, 0), factor |-> Float(1, 1),
       max_seconds |-> Float(3, 0)] }

\* reconciliation policies: the two built-in ones and a caller-supplied one
ReconciliationPolicies ==
    { [kind |-> "noop"], [kind |-> "custom"] }
    \cup { [kind |-> "threshold", threshold |-> n] : n \in 1..(MaxAttempts + 1) }

\* FailoverOrchestrator(strategy, backoff_policy, reconciliation_policy, max_attempts)
Orchestrators ==
    [ backoff_policy : BackoffPolicies,
      reconciliation_policy : ReconciliationPolicies,
      max_attempts : 0..MaxAttempts ]

\* what a strategy may leave in context.last_error
StrategyErrors == {None, "strategy_failed"}

\* runtime_metadata of a call, as its set of keys (None counts as empty)
RuntimeMetadatas == {{}, {"hint"}}

(***************************************************************************)
(* The sequential failover loop: each returned state is fed to the next    *)
(* run_step call.                                                          *)
(***************************************************************************)
InitFailover ==
    /\ orch \in Orchestrators
    /\ fstate = initialize("s1", {})
    /\ fresult = None
    /\ calls = 0
    /\ strategy_calls = 0
    /\ policy_calls = 0
    /\ outcomes = <<>>
    /\ smParked /\ ccParked /\ sqParked /\ fnParked /\ bfParked

RunStep ==
    /\ calls < MaxCalls
    /\ \E md \in RuntimeMetadatas, err \in StrategyErrors,
          choice \in ReconciliationOutcome :
          LET r == run_step(orch, fstate, md, err, choice)
          IN  /\ fresult' = r.result
              /\ fstate' = r.result.state
              /\ calls' = calls + 1
              /\ strategy_calls' = strategy_calls + (IF r.executed THEN 1 ELSE 0)
              /\ policy_calls' = policy_calls + (IF r.evaluated THEN 1 ELSE 0)
              /\ outcomes' = Append(outcomes, r.result.reconciliation.outcome)
    /\ UNCHANGED <<orch, smVars, ccVars, sqVars, fnVars, bfVars>>

NextFailover == RunStep

SpecFailover == InitFailover /\ [][NextFailover]_vars

(***************************************************************************)
(* Claims about the failover orchestrator.                                 *)
(***************************************************************************)
\* the status the claims prescribe for a reconciliation outcome
StatusFor(outcome) ==
    CASE outcome = "continue" -> "active"
      [] outcome = "recover"  -> "idle"
      [] outcome = "finalize" -> "exhausted"
      [] outcome = "unknown"  -> "exhausted"

\* the step now taken invoked the strategy
StrategyInvoked == strategy_calls' = strategy_calls + 1

\* the step now taken invoked neither the strategy nor the policy
NothingInvoked ==
    strategy_calls' = strategy_calls /\ policy_calls' = policy_calls

\* C11: a state whose status is exhausted is absorbing: run_step returns
\* outcome FINALIZE, no backoff delay and the very same state, and invokes
\* neither the recovery strategy nor the reconciliation policy.
C11_ExhaustedAbsorbing ==
    [][ (fstate.status = "exhausted") =>
            /\ fresult'.reconciliation.outcome = "finalize"
            /\ fresult'.backoff_delay = NoDelay
            /\ fresult'.state = fstate
            /\ fstate' = fstate
            /\ NothingInvoked ]_vars

\* C11 witness: run_step was called on a state that the policy, not the
\* attempt limit, had exhausted, and returned it as it was.
C11_Witness ==
    /\ calls >= 2
    /\ fstate.status = "exhausted"
    /\ fstate.attempt < orch.max_attempts
    /\ fresult.reconciliation.reason_code = "already_exhausted"
    /\ strategy_calls < calls

\* C12 as stated: whenever state.attempt + 1 exceeds max_attempts, run_step
\* does not invoke the strategy and returns a state with status exhausted,
\* last_error max_attempts_exceeded and the attempt count unchanged, with
\* outcome FINALIZE and no backoff delay.
C12_AttemptsExceeded ==
    [][ (fstate.attempt + 1 > orch.max_attempts) =>
            /\ strategy_calls' = strategy_calls
            /\ fresult'.state.status = "exhausted"
            /\ fresult'.state.last_error = "max_attempts_exceeded"
            /\ fresult'.state.attempt = fstate.attempt
            /\ fresult'.reconciliation.outcome = "finalize"
            /\ fresult'.backoff_delay = NoDelay ]_vars

\* C12 amended: the same, for a state that is not already exhausted; an
\* already exhausted state is returned as it is, whatever its last_error.
C12_AttemptsExceededNotExhausted ==
    [][ (fstate.attempt + 1 > orch.max_attempts) =>
            /\ strategy_calls' = strategy_calls
            /\ fresult'.state.status = "exhausted"
            /\ fresult'.state.attempt = fstate.attempt
            /\ fresult'.reconciliation.outcome = "finalize"
            /\ fresult'.backoff_delay = NoDelay
            /\ IF fstate.status # "exhausted"
               THEN /\ fresult'.state.last_error = "max_attempts_exceeded"
                    /\ fresult'.reconciliation.reason_code = "max_attempts_exceeded"
               ELSE fresult'.state = fstate ]_vars

\* C12 witness: a step found the attempt limit reached on an active state and
\* returned the exhausted state with the attempt count of the limit.
C12_Witness ==
    /\ calls = orch.max_attempts + 1
    /\ orch.max_attempts >= 1
    /\ strategy_calls = orch.max_attempts
    /\ fresult.reconciliation.reason_code = "max_attempts_exceeded"
    /\ fstate.status = "exhausted"
    /\ fstate.last_error = "max_attempts_exceeded"
    /\ fstate.attempt = orch.max_attempts

\* C13: in a run_step that invokes the strategy, the new status is determined
\* by the reconciliation outcome alone (continue: active, recover: idle,
\* finalize: exhausted, unknown: exhausted), and a backoff delay is returned
\* exactly when the outcome is continue, and is then
\* backoff_policy.next_delay(new attempt number).
C13_StatusAndDelayFromOutcome ==
    [][ StrategyInvoked =>
            LET outcome == fresult'.reconciliation.outcome
            IN  /\ fstate'.status = StatusFor(outcome)
                /\ fstate'.attempt = fstate.attempt + 1
                /\ (fresult'.backoff_delay # NoDelay) <=> (outcome = "continue")
                /\ (outcome = "continue") =>
                       fresult'.backoff_delay =
                           next_delay(orch.backoff_policy, fstate'.attempt) ]_vars

\* C13 witness: a step invoked the strategy, the policy answered unknown, and
\* the state became exhausted with no delay.
C13_Witness ==
    /\ calls >= 1
    /\ strategy_calls = calls
    /\ fresult.reconciliation.outcome = "unknown"
    /\ fstate.status = "exhausted"
    /\ fresult.backoff_delay = NoDelay

\* C14: the loop from initialize reaches, within max_attempts + 1 calls, a
\* step whose outcome is not continue, whatever the policies and the strategy
\* do; the strategy is invoked at most max_attempts times over the whole run.
C14_LoopBounded ==
    /\ strategy_calls <= orch.max_attempts
    /\ (calls >= orch.max_attempts + 1) =>
           \E i \in 1..(orch.max_attempts + 1) : outcomes[i] # "continue"

\* C14 witness: a policy that always answers continue used up all the
\* attempts, and the call after the last attempt was the first not to continue.
C14_Witness ==
    /\ orch.max_attempts = MaxAttempts
    /\ calls = orch.max_attempts + 1
    /\ strategy_calls = orch.max_attempts
    /\ \A i \in 1..orch.max_attempts : outcomes[i] = "continue"
    /\ outcomes[calls] = "finalize"

\* the orchestrator of C15: max_attempts = n with a Threshold(n) policy
IsThresholdLoop ==
    /\ orch.reconciliation_policy.kind = "threshold"
    /\ orch.reconciliation_policy.threshold = orch.max_attempts

\* C15: with max_attempts = n and a Threshold(n) policy (n >= 1), from the
\* initial state the first n-1 calls yield continue with status active, the
\* n-th yields recover (status idle, attempt n), and the (n+1)-th returns
\* FINALIZE without invoking the strategy.
C15_ThresholdLoop ==
    IsThresholdLoop =>
        LET n == orch.max_attempts
        IN  /\ (calls >= 1 /\ calls < n) =>
                   /\ outcomes[calls] = "continue"
                   /\ fstate.status = "active"
                   /\ fstate.attempt = calls
                   /\ strategy_calls = calls
            /\ (calls = n) =>
                   /\ outcomes[calls] = "recover"
                   /\ fstate.status = "idle"
                   /\ fstate.attempt = n
                   /\ strategy_calls = n
            /\ (calls = n + 1) =>
                   /\ outcomes[calls] = "finalize"
                   /\ strategy_calls = n
                   /\ policy_calls = n

\* C15 witness: the spec instance n = 3 after its fourth call.
C15_Witness ==
    /\ IsThresholdLoop
    /\ orch.max_attempts = 3
    /\ calls = 4
    /\ outcomes = <<"continue", "continue", "recover", "finalize">>
    /\ strategy_calls = 3

(***************************************************************************)
(* Part 3a: several callers share one current FailoverState and install    *)
(* the result of run_step by compare-and-swap.  strategy_calls counts the   *)
(* strategy executions of all callers; the other bookkeeping of the        *)
(* sequential loop stays at None here.                                     *)
(***************************************************************************)
\* the concurrent callers of run_step
Callers == {"c1", "c2"}

\* the orchestrators of the concurrent callers: any reconciliation answer
CasOrchestrators ==
    { o \in Orchestrators : /\ o.reconciliation_policy.kind = "custom"
                            /\ o.backoff_policy.kind = "constant" }

InitCAS ==
    /\ orch \in CasOrchestrators
    /\ fstate = initialize("s1", {})
    /\ fresult = None /\ calls = None /\ strategy_calls = 0
    /\ policy_calls = None /\ outcomes = None
    /\ callers = [c \in Callers |-> [pc |-> "idle", read |-> None, result |-> None, cas |-> None]]
    /\ threads = None /\ discipline = None /\ start = None
    /\ smParked /\ sqParked /\ fnParked /\ bfParked

\* the caller reads the shared current state
CallerRead(c) ==
    /\ callers[c].pc = "idle"
    /\ callers' = [callers EXCEPT ![c].pc = "read", ![c].read = fstate]
    /\ UNCHANGED <<orch, fstate, fresult, calls, strategy_calls, policy_calls, outcomes>>
    /\ UNCHANGED <<threads, discipline, start, smVars, sqVars, fnVars, bfVars>>

\* the caller calls run_step on what it read
CallerStep(c) ==
    /\ callers[c].pc = "read"
    /\ \E err \in StrategyErrors, choice \in ReconciliationOutcome :
          LET r == run_step(orch, callers[c].read, {}, err, choice)
          IN  /\ callers' = [callers EXCEPT ![c].pc = "stepped",
                                           ![c].result = r.result.state]
              /\ strategy_calls' = strategy_calls + (IF r.executed THEN 1 ELSE 0)
    /\ UNCHANGED <<orch, fstate, fresult, calls, policy_calls, outcomes>>
    /\ UNCHANGED <<threads, discipline, start, smVars, sqVars, fnVars, bfVars>>

\* the caller installs its result if the current state is still the one it read
CompareAndSwap(c) ==
    /\ callers[c].pc = "stepped"
    /\ IF fstate = callers[c].read
       THEN /\ fstate' = callers[c].result
            /\ callers' = [callers EXCEPT ![c].pc = "idle", ![c].cas = "installed"]
       ELSE /\ fstate' = fstate
            /\ callers' = [callers EXCEPT ![c].pc = "idle", ![c].cas = "failed"]
    /\ UNCHANGED <<orch, fresult, calls, strategy_calls, policy_calls, outcomes>>
    /\ UNCHANGED <<threads, discipline, start, smVars, sqVars, fnVars, bfVars>>

NextCAS ==
    \E c \in Callers : CallerRead(c) \/ CallerStep(c) \/ CompareAndSwap(c)

SpecCAS == InitCAS /\ [][NextCAS]_vars

\* C16: with compare-and-swap callers every installed state is the run_step
\* successor of the state it replaced: the stored attempt grows by at most
\* one per installed write, never skips a value, never exceeds max_attempts,
\* and a stored exhausted state is never replaced by a non-exhausted one.
C16_CasInstallsSuccessor ==
    [][ (fstate' # fstate) =>
            /\ \E err \in StrategyErrors, choice \in ReconciliationOutcome :
                   fstate' = run_step(orch, fstate, {}, err, choice).result.state
            /\ fstate'.attempt \in {fstate.attempt, fstate.attempt + 1}
            /\ fstate'.attempt <= orch.max_attempts
            /\ fstate.status # "exhausted" ]_vars

\* C16 witness: two callers raced on the same state; one installed its
\* successor, the other's compare-and-swap failed, and the stored attempt
\* count still reached max_attempts one step at a time.
C16_Witness ==
    /\ callers["c1"].cas = "failed"
    /\ callers["c1"].pc = "idle"
    /\ callers["c1"].result.attempt <= fstate.attempt
    /\ callers["c2"].cas = "installed"
    /\ orch.max_attempts >= 2
    /\ fstate.attempt = orch.max_attempts

(***************************************************************************)
(* Part 3b: two apply_event calls on one PLDStateMachine.  A call reads    *)
(* self._state into prev when it starts and writes self._state when it     *)
(* ends; the two steps of different calls may interleave.  The last        *)
(* transition of the sequential machine (event, reason, violations,        *)
(* lifecycle) stays at None here: each call returns its own.               *)
(***************************************************************************)
\* the threads calling apply_event
Threads == {"t1", "t2"}

\* apply_event from the snapshot prev: what it writes and returns
Applied(prev, ev) ==
    LET phase == IF ev.phase \in VALID_PHASES THEN ev.phase ELSE None
    IN  next_state_from_event(prev, phase, ev.event_type, ev.code, ev.turn_sequence, PhaseViolations(ev))

\* PLDStateMachine.__init__: the state of a fresh machine
FreshState == StateSnapshot("none", FALSE, None, None, NoTurn, FALSE)

\* the states the machine is in before the two calls: fresh, or opened by
\* continue_allowed at turn 1
RaceStarts ==
    { FreshState,
      Applied(FreshState, [event_type |-> "continue_allowed", phase |-> "continue", code |-> "C0_normal", turn_sequence |-> 1]).next_state }

\* the events of the two calls: well-formed events of a running session
RaceEvents ==
    { ev \in Events : ev.code = "C0_normal" /\ PhaseViolations(ev) = << >> }

\* A read that sees the state before both calls (used to test the claims)
ReadSnapshot_Stale(t) == start

\* prev = self._state
ReadSnapshot(t) == state

\* single-writer-per-session discipline: no call starts while another call
\* is between its read and its write
MayEnter(t) ==
    (discipline = "single_writer") =>
        \A u \in Threads \ {t} : threads[u].pc # "read"

InitRace ==
    /\ state \in RaceStarts
    /\ start = state
    /\ event = None /\ reason = None /\ violations = None /\ lifecycle = None
    /\ respected = None
    /\ discipline \in {"single_writer", "none"}
    /\ threads \in [Threads -> { [pc |-> "start", event |-> ev, prev |-> None, transition |-> None] : ev \in RaceEvents }]
    /\ callers = None
    /\ foParked /\ sqParked /\ fnParked /\ bfParked

\* the call reads self._state
ThreadRead(t) ==
    /\ threads[t].pc = "start"
    /\ MayEnter(t)
    /\ threads' = [threads EXCEPT ![t].pc = "read", ![t].prev = ReadSnapshot(t)]
    /\ UNCHANGED <<smVars, callers, discipline, start, foVars, sqVars, fnVars, bfVars>>

\* the call computes the next state from prev, writes self._state and returns
ThreadWrite(t) ==
    /\ threads[t].pc = "read"
    /\ LET res == Applied(threads[t].prev, threads[t].event)
       IN  /\ state' = res.next_state
           /\ threads' = [threads EXCEPT ![t].pc = "done",
                              ![t].transition = [reason |-> res.reason, violations |-> res.violations]]
    /\ UNCHANGED <<event, reason, violations, lifecycle, respected>>
    /\ UNCHANGED <<callers, discipline, start, foVars, sqVars, fnVars, bfVars>>

NextRace == \E t \in Threads : ThreadRead(t) \/ ThreadWrite(t)

SpecRace == InitRace /\ [][NextRace]_vars

\* the state after applying a's event and then b's, one call after the other
Sequential(a, b) ==
    Applied(Applied(start, threads[a].event).next_state, threads[b].event).next_state

\* both calls have returned
BothDone == \A t \in Threads : threads[t].pc = "done"

\* both calls read the snapshot before either wrote
BothReadFirst == \A t \in Threads : threads[t].prev = start

\* C17: under a single writer per session the final state of two apply_event
\* calls is that of one of the two sequential orders; when both calls read
\* the snapshot before either writes, the final state is that of one event
\* applied alone to the snapshot: the earlier writer's event is lost.
C17_SingleWriterSequential ==
    BothDone =>
        /\ (discipline = "single_writer") =>
               state \in {Sequential("t1", "t2"), Sequential("t2", "t1")}
        /\ BothReadFirst =>
               \E t \in Threads : state = Applied(start, threads[t].event).next_state

\* C17 witness: without the discipline both calls read the fresh machine,
\* t1 wrote first and t2 last, and the final state equals neither sequential
\* order: it is t2's event alone, t1's is lost.
C17_Witness ==
    /\ discipline = "none"
    /\ BothDone
    /\ BothReadFirst
    /\ start = FreshState
    /\ state \notin {Sequential("t1", "t2"), Sequential("t2", "t1")}
    /\ state = Applied(start, threads["t2"].event).next_state
    /\ state # Applied(start, threads["t1"].event).next_state

(***************************************************************************)
(* Part 4: the sequence rule checker, evaluate_sequence_rules.             *)
(***************************************************************************)
\* transcripts of up to MaxLen events
MaxLen == 3

\* event_index = None
NoIndex == -1

\* SequenceRuleViolation(...); message and details are diagnostic only
SequenceRuleViolation(rule_id, severity, session_id, turn_sequence, event_index, event_type) ==
    [ rule_id |-> rule_id, severity |-> severity, session_id |-> session_id,
      turn_sequence |-> turn_sequence, event_index |-> event_index,
      event_type |-> event_type ]

\* SequenceValidationResult(session_id, is_valid, violations)
SequenceValidationResult(session_id, is_valid, viols) ==
    [ session_id |-> session_id, is_valid |-> is_valid, violations |-> viols ]

\* violations.extend over a loop: the concatenation of the lists in order
RECURSIVE Flatten(_)
Flatten(lists) ==
    IF lists = << >> THEN << >> ELSE Head(lists) \o Flatten(Tail(lists))

\* allowed_recovery_events default
DefaultRecoveryEvents == {"reentry_observed", "continue_allowed", "session_closed"}

\* The classifier that treats fallback_executed as observability unless its
\* phase is failover, drift or repair (used to test the claims)
is_observability_or_info_NegativeRule(event_type, phase) ==
    IF event_type = None THEN FALSE
    ELSE IF event_type \in {"latency_spike", "pause_detected", "handoff", "info"}
    THEN TRUE
    ELSE event_type = "fallback_executed" /\ phase \notin {"failover", "drift", "repair"}

\* _is_observability_or_info with no classifier supplied
is_observability_or_info(event_type, phase) ==
    IF event_type = None THEN FALSE
    ELSE IF event_type \in {"latency_spike", "pause_detected", "handoff", "info"}
    THEN TRUE
    ELSE IF event_type = "fallback_executed" /\ phase \in {"none", "continue", "reentry", "outcome"}
    THEN TRUE
    ELSE FALSE

\* by_session keys: the session ids in order of first appearance
RECURSIVE SessionOrder(_)
SessionOrder(events) ==
    IF events = << >> THEN << >>
    ELSE LET before == SessionOrder(SubSeq(events, 1, Len(events) - 1))
             sid    == events[Len(events)].session_id
         IN  IF \E k \in 1..Len(before) : before[k] = sid THEN before
             ELSE Append(before, sid)

\* by_session[session_id]: the (idx, ev) pairs of the session, in input order
IndexedEvents(events, session_id) ==
    SelectSeq([i \in 1..Len(events) |-> [idx |-> i - 1, ev |-> events[i]]], LAMBDA p : p.ev.session_id = session_id)

\* The monotonicity check that accepts a repeated turn_sequence (used to test
\* the claims)
check_turn_sequence_monotonicity_AllowsEqual(session_id, indexed_events) ==
    Flatten([k \in 1..Len(indexed_events) |->
        LET ev == indexed_events[k].ev
        IN  IF k > 1 /\ ev.turn_sequence < indexed_events[k - 1].ev.turn_sequence
            THEN << SequenceRuleViolation("SR-001", "error", session_id, ev.turn_sequence, indexed_events[k].idx, ev.event_type) >>
            ELSE << >>])

\* _check_turn_sequence_monotonicity
check_turn_sequence_monotonicity(session_id, indexed_events) ==
    Flatten([k \in 1..Len(indexed_events) |->
        LET ev == indexed_events[k].ev
        IN  IF k > 1 /\ ev.turn_sequence <= indexed_events[k - 1].ev.turn_sequence
            THEN << SequenceRuleViolation("SR-001", "error", session_id, ev.turn_sequence, indexed_events[k].idx, ev.event_type) >>
            ELSE << >>])

\* closure_turn = max(turn_sequence of the session_closed events, default=None)
ClosureTurn(indexed_events) ==
    LET turns == { indexed_events[k].ev.turn_sequence : k \in { j \in 1..Len(indexed_events) : indexed_events[j].ev.event_type = "session_closed" } }
    IN  IF turns = {} THEN NoTurn
        ELSE CHOOSE t \in turns : \A u \in turns : u <= t

\* _check_session_closed_terminal
check_session_closed_terminal(session_id, indexed_events) ==
    LET closure_turn == ClosureTurn(indexed_events)
    IN  IF closure_turn = NoTurn THEN << >>
        ELSE Flatten([k \in 1..Len(indexed_events) |->
                 LET ev == indexed_events[k].ev
                 IN  IF ev.turn_sequence <= closure_turn THEN << >>
                     ELSE IF is_observability_or_info(ev.event_type, ev.phase)
                     THEN << SequenceRuleViolation("SR-002B", "warning", session_id, ev.turn_sequence, indexed_events[k].idx, ev.event_type) >>
                     ELSE << SequenceRuleViolation("SR-002A", "error", session_id, ev.turn_sequence, indexed_events[k].idx, ev.event_type) >>])

\* sorted(indexed_events, key=turn_sequence): a stable sort
RECURSIVE SortedByTurn(_)
SortedByTurn(indexed_events) ==
    IF indexed_events = << >> THEN << >>
    ELSE LET n      == Len(indexed_events)
             last   == indexed_events[n]
             before == SortedByTurn(SubSeq(indexed_events, 1, n - 1))
         IN  SelectSeq(before, LAMBDA p : p.ev.turn_sequence <= last.ev.turn_sequence)
             \o << last >>
             \o SelectSeq(before, LAMBDA p : p.ev.turn_sequence > last.ev.turn_sequence)

\* The scan for the next event that does not skip observability events
\* (used to test the claims)
NextLifecyclePos_NoSkip(sorted_events, pos) ==
    IF pos < Len(sorted_events) THEN pos + 1 ELSE 0

\* the inner loop of _check_failover_recovery_path: the position of the first
\* event after pos that is not observability/info, 0 if there is none
NextLifecyclePos(sorted_events, pos) ==
    LET cands == { j \in (pos + 1)..Len(sorted_events) : ~is_observability_or_info(sorted_events[j].ev.event_type, sorted_events[j].ev.phase) }
    IN  IF cands = {} THEN 0
        ELSE CHOOSE j \in cands : \A i \in cands : j <= i

\* _check_failover_recovery_path
check_failover_recovery_path(session_id, indexed_events, allowed_recovery_events) ==
    LET sorted_events == SortedByTurn(indexed_events)
    IN  Flatten([pos \in 1..Len(sorted_events) |->
            LET ev == sorted_events[pos].ev
                j  == NextLifecyclePos(sorted_events, pos)
            IN  IF ev.event_type # "failover_triggered" THEN << >>
                ELSE IF j = 0
                THEN << SequenceRuleViolation("SR-003C", "warning", session_id, ev.turn_sequence, sorted_events[pos].idx, "failover_triggered") >>
                ELSE IF sorted_events[j].ev.event_type \notin allowed_recovery_events
                THEN << SequenceRuleViolation("SR-003A", "error", session_id, sorted_events[j].ev.turn_sequence, sorted_events[j].idx, sorted_events[j].ev.event_type) >>
                ELSE << >>])

\* The closure rule reporting every extra session_closed event (used to test
\* the claims)
evaluate_session_sequence_PerClosure(session_id, indexed_events, allowed_recovery_events) ==
    LET closure_count == Cardinality({ k \in 1..Len(indexed_events) : indexed_events[k].ev.event_type = "session_closed" })
    IN  check_turn_sequence_monotonicity(session_id, indexed_events)
        \o check_session_closed_terminal(session_id, indexed_events)
        \o check_failover_recovery_path(session_id, indexed_events, allowed_recovery_events)
        \o [ k \in 1..(IF closure_count > 1 THEN closure_count - 1 ELSE 0) |->
               SequenceRuleViolation("SR-004", "error", session_id, NoTurn, NoIndex, "session_closed") ]

\* _evaluate_session_sequence
evaluate_session_sequence(session_id, indexed_events, allowed_recovery_events) ==
    LET closure_count == Cardinality({ k \in 1..Len(indexed_events) : indexed_events[k].ev.event_type = "session_closed" })
    IN  check_turn_sequence_monotonicity(session_id, indexed_events)
        \o check_session_closed_terminal(session_id, indexed_events)
        \o check_failover_recovery_path(session_id, indexed_events, allowed_recovery_events)
        \o (IF closure_count > 1
            THEN << SequenceRuleViolation("SR-004", "error", session_id, NoTurn, NoIndex, "session_closed") >>
            ELSE << >>)

\* is_valid that any violation, a warning too, turns false (used to test the
\* claims)
IsValid_NoViolationAtAll(viols) == viols = << >>

\* is_valid = not any(v.severity is SequenceSeverity.ERROR for v in violations)
IsValid(viols) ==
    ~\E k \in 1..Len(viols) : viols[k].severity = "error"

\* evaluate_sequence_rules with the default classifier and recovery set
evaluate_sequence_rules(events) ==
    LET order == SessionOrder(events)
    IN  [ n \in 1..Len(order) |->
            LET viols == evaluate_session_sequence(order[n], IndexedEvents(events, order[n]), DefaultRecoveryEvents)
            IN  SequenceValidationResult(order[n], IsValid(viols), viols) ]

(***************************************************************************)
(* The transcripts of the model: a caller extends a transcript by one      *)
(* event and has it evaluated.                                             *)
(***************************************************************************)
\* turn_sequence values of the transcripts
SeqTurns == {1, 2, 3}

\* event_type and phase of the events of session s1: closure, failover,
\* lifecycle, observability and the two faces of fallback_executed
SeqKinds ==
    { <<"session_closed", "outcome">>, <<"failover_triggered", "failover">>,
      <<"drift_detected", "drift">>, <<"reentry_observed", "reentry">>,
      <<"info", "none">>, <<"fallback_executed", "failover">>,
      <<"fallback_executed", "continue">> }

\* the events of a second session, interleaved with those of s1
OtherKinds == { <<"drift_detected", "drift">>, <<"session_closed", "outcome">> }

SeqEvents ==
    { [session_id |-> "s1", event_type |-> k[1], phase |-> k[2], turn_sequence |-> t] : k \in SeqKinds, t \in SeqTurns }
    \cup
    { [session_id |-> "s2", event_type |-> k[1], phase |-> k[2], turn_sequence |-> t] : k \in OtherKinds, t \in SeqTurns }

InitSeq ==
    /\ transcript = << >>
    /\ results = evaluate_sequence_rules(<< >>)
    /\ smParked /\ foParked /\ ccParked /\ fnParked /\ bfParked

Evaluate(ev) ==
    /\ Len(transcript) < MaxLen
    /\ transcript' = Append(transcript, ev)
    /\ results' = evaluate_sequence_rules(transcript')
    /\ UNCHANGED <<smVars, foVars, ccVars, fnVars, bfVars>>

NextSeq == \E ev \in SeqEvents : Evaluate(ev)

SpecSeq == InitSeq /\ [][NextSeq]_vars

(***************************************************************************)
(* Claims about the sequence rule checker.                                 *)
(***************************************************************************)
\* the positions of the transcript
Positions == 1..Len(transcript)

\* positions i and j hold events of the same session
SameSession(i, j) == transcript[i].session_id = transcript[j].session_id

\* the result the checker returned for session sid
ResultFor(sid) ==
    CHOOSE r \in { results[n] : n \in 1..Len(results) } : r.session_id = sid

\* how many violations of the rule the result of sid's session holds for the
\* event at position i of the transcript (event_index counts from 0)
Reported(sid, rule_id, severity, i) ==
    LET viols == ResultFor(sid).violations
    IN  Cardinality({ k \in 1..Len(viols) : /\ viols[k].rule_id = rule_id
                                            /\ viols[k].severity = severity
                                            /\ viols[k].event_index = i - 1
                                            /\ viols[k].event_type = transcript[i].event_type
                                            /\ viols[k].turn_sequence = transcript[i].turn_sequence })

\* how many violations of the rule, of any severity, are reported for position i
ReportedAny(sid, rule_id, i) ==
    LET viols == ResultFor(sid).violations
    IN  Cardinality({ k \in 1..Len(viols) : /\ viols[k].rule_id = rule_id
                                            /\ viols[k].event_index = i - 1 })

\* the position of the preceding event of the same session, 0 if none
PrevOfSession(i) ==
    LET js == { j \in 1..(i - 1) : SameSession(i, j) }
    IN  IF js = {} THEN 0 ELSE CHOOSE j \in js : \A k \in js : k <= j

\* the event at i does not raise turn_sequence over its predecessor's
NotIncreasing(i) ==
    /\ PrevOfSession(i) # 0
    /\ transcript[i].turn_sequence <= transcript[PrevOfSession(i)].turn_sequence

\* the events of every session carry strictly increasing turn_sequence
StrictlyIncreasing == \A i \in Positions : ~NotIncreasing(i)

\* the event at i is classified observability/info
IsObservability(i) ==
    \/ transcript[i].event_type = "info"
    \/ transcript[i].event_type = "fallback_executed" /\ transcript[i].phase = "continue"

\* C18: an event whose turn_sequence is not greater than that of the
\* preceding event of its session gets an SR-001 violation of ERROR severity
\* and the session's is_valid is false; an event that does increase it gets
\* none, so a strictly increasing transcript has no SR-001 violation.
C18_Monotonicity ==
    \A i \in Positions :
        LET sid == transcript[i].session_id
        IN  IF NotIncreasing(i)
            THEN /\ Reported(sid, "SR-001", "error", i) = 1
                 /\ ~ResultFor(sid).is_valid
            ELSE ReportedAny(sid, "SR-001", i) = 0

\* C18 witness: session s1 repeats a turn_sequence around an event of session
\* s2; s1 is invalid with SR-001 at its second event, s2 stays valid.
C18_Witness ==
    /\ Len(transcript) = 3
    /\ transcript[1].session_id = "s1"
    /\ transcript[2].session_id = "s2"
    /\ transcript[3].session_id = "s1"
    /\ transcript[3].turn_sequence = transcript[1].turn_sequence
    /\ transcript[1].event_type = "drift_detected"
    /\ transcript[3].event_type = "reentry_observed"
    /\ Reported("s1", "SR-001", "error", 3) = 1
    /\ ~ResultFor("s1").is_valid
    /\ ResultFor("s2").is_valid

\* the position of the first session_closed event of i's session, 0 if none
FirstClosure(i) ==
    LET js == { j \in Positions : SameSession(i, j) /\ transcript[j].event_type = "session_closed" }
    IN  IF js = {} THEN 0 ELSE CHOOSE j \in js : \A k \in js : j <= k

\* the event at i comes after the first session_closed of its session
AfterFirstClosure(i) ==
    /\ FirstClosure(i) # 0
    /\ transcript[i].turn_sequence > transcript[FirstClosure(i)].turn_sequence

\* C19 as stated, on transcripts in strictly increasing turn order: with T the
\* turn_sequence of the first session_closed event of a session, every
\* lifecycle event with turn_sequence greater than T gets an ERROR and every
\* observability/info event with turn_sequence greater than T gets a WARNING
\* and no ERROR, also when there are several session_closed events.  (A
\* later session_closed event itself is left out: SR-004 reports it.)
C19_AfterFirstClosure ==
    StrictlyIncreasing =>
        \A i \in Positions :
            LET sid == transcript[i].session_id
            IN  (AfterFirstClosure(i) /\ transcript[i].event_type # "session_closed") =>
                    IF IsObservability(i)
                    THEN /\ Reported(sid, "SR-002B", "warning", i) = 1
                         /\ ReportedAny(sid, "SR-002A", i) = 0
                    ELSE Reported(sid, "SR-002A", "error", i) = 1

\* i comes before j in turn_sequence order (input order among equal turns)
Before(i, j) ==
    \/ transcript[i].turn_sequence < transcript[j].turn_sequence
    \/ transcript[i].turn_sequence = transcript[j].turn_sequence /\ i < j

\* the lifecycle events of i's session that come after i in turn order
LaterLifecycle(i) ==
    { j \in Positions : SameSession(i, j) /\ j # i /\ Before(i, j) /\ ~IsObservability(j) }

\* the position of the next lifecycle event after i in turn order, 0 if none
NextLifecycle(i) ==
    IF LaterLifecycle(i) = {} THEN 0
    ELSE CHOOSE j \in LaterLifecycle(i) : \A k \in LaterLifecycle(i) : k = j \/ Before(j, k)

\* the failover_triggered events of the transcript
Failovers == { i \in Positions : transcript[i].event_type = "failover_triggered" }

\* the failover at i has no next lifecycle event
Unrecovered(i) == NextLifecycle(i) = 0

\* the failover at i is followed by a lifecycle event outside the recovery set
BadlyRecovered(i) ==
    /\ NextLifecycle(i) # 0
    /\ transcript[NextLifecycle(i)].event_type \notin {"reentry_observed", "continue_allowed", "session_closed"}

\* C20: for every failover_triggered event, in turn_sequence order and
\* skipping observability/info events: a WARNING SR-003C at the failover if no
\* later lifecycle event exists, an ERROR SR-003A at the next lifecycle event
\* if its type is not in the default recovery set, and nothing for that
\* failover if it is in the set.
C20_FailoverRecoveryPath ==
    \A i \in Failovers :
        LET sid == transcript[i].session_id
            j   == NextLifecycle(i)
        IN  /\ Unrecovered(i) => Reported(sid, "SR-003C", "warning", i) = 1
            /\ ~Unrecovered(i) => ReportedAny(sid, "SR-003C", i) = 0
            /\ BadlyRecovered(i) =>
                   /\ Reported(sid, "SR-003A", "error", j) = Cardinality({ f \in Failovers : NextLifecycle(f) = j })
                   /\ ~ResultFor(sid).is_valid
            /\ (~Unrecovered(i) /\ ~BadlyRecovered(i)) => ReportedAny(sid, "SR-003A", j) = 0

\* C20 witness: the transcript lists drift_detected, info and then the
\* failover_triggered that precedes both in turn order; the info event is
\* skipped and SR-003A is reported at the drift_detected event.
C20_Witness ==
    /\ Len(transcript) = 3
    /\ \A i \in Positions : transcript[i].session_id = "s1"
    /\ transcript[1].event_type = "drift_detected"
    /\ transcript[2].event_type = "info"
    /\ transcript[3].event_type = "failover_triggered"
    /\ Before(3, 2) /\ Before(2, 1)
    /\ NextLifecycle(3) = 1
    /\ Reported("s1", "SR-003A", "error", 1) = 1
    /\ ReportedAny("s1", "SR-003C", 3) = 0

\* the sessions of the transcript
Sessions == { transcript[i].session_id : i \in Positions }

\* how many session_closed events session sid has in the transcript
ClosureCount(sid) ==
    Cardinality({ i \in Positions : /\ transcript[i].session_id = sid
                                    /\ transcript[i].event_type = "session_closed" })

\* how many violations of the rule the result of sid's session holds
RuleCount(sid, rule_id) ==
    LET viols == ResultFor(sid).violations
    IN  Cardinality({ k \in 1..Len(viols) : viols[k].rule_id = rule_id })

\* C21: a session with two or more session_closed events gets exactly one
\* SR-004 violation, of ERROR severity, whatever the number of closures; a
\* session with zero or one session_closed event gets none.
C21_ClosureUniqueness ==
    \A sid \in Sessions :
        LET viols == ResultFor(sid).violations
        IN  /\ RuleCount(sid, "SR-004") = (IF ClosureCount(sid) >= 2 THEN 1 ELSE 0)
            /\ \A k \in 1..Len(viols) :
                   (viols[k].rule_id = "SR-004") => viols[k].severity = "error"

\* C21 witness: three session_closed events in one session, one SR-004.
C21_Witness ==
    /\ Len(transcript) = 3
    /\ ClosureCount("s1") = 3
    /\ RuleCount("s1", "SR-004") = 1
    /\ ~ResultFor("s1").is_valid

\* the rules the checker reports with ERROR severity
ErrorRules == {"SR-001", "SR-002A", "SR-003A", "SR-004"}

\* the rules the checker reports with WARNING severity
WarningRules == {"SR-002B", "SR-003C"}

\* C22: is_valid of a session is true exactly when its violation list holds
\* no ERROR-severity violation; the warnings (SR-002B observability event
\* after closure, SR-003C failover with no recovery) are reported with
\* WARNING severity and never make the session invalid.
C22_ValidIffNoError ==
    \A sid \in Sessions :
        LET r == ResultFor(sid)
        IN  /\ r.is_valid <=> (\A k \in 1..Len(r.violations) : r.violations[k].severity # "error")
            /\ r.is_valid <=> (\A k \in 1..Len(r.violations) : r.violations[k].rule_id \in WarningRules)
            /\ \A k \in 1..Len(r.violations) :
                   /\ (r.violations[k].rule_id \in WarningRules) => r.violations[k].severity = "warning"
                   /\ (r.violations[k].rule_id \in ErrorRules) => r.violations[k].severity = "error"

\* C22 witness: a session whose only violations are warnings, two
\* observability events after its closure, is still valid.
C22_Witness ==
    /\ Sessions = {"s1"}
    /\ Len(transcript) = 3
    /\ RuleCount("s1", "SR-002B") = 2
    /\ Len(ResultFor("s1").violations) = 2
    /\ ResultFor("s1").is_valid

(***************************************************************************)
(* Part 5: the stateless functions.  Each specification below starts with  *)
(* the arguments of one call drawn from a bounded set and applies the      *)
(* function to them; call holds the arguments and whether the function has *)
(* returned, ret what it returned.                                         *)
(***************************************************************************)
\* event_type arguments of the classifier: the event types of the state
\* machine, the observability types, and a missing type
ClassifyTypes == EventTypes \cup {"pause_detected", "handoff", "fallback_executed", None}

\* phase arguments of the classifier: the phases, an unknown string, a missing phase
ClassifyPhases == PhaseStrings \cup {None}

InitClassify ==
    /\ call \in [fn : {"is_observability_or_info"}, event_type : ClassifyTypes, phase : ClassifyPhases, done : {FALSE}]
    /\ ret = None
    /\ smParked /\ foParked /\ ccParked /\ sqParked /\ bfParked

Classify ==
    /\ ~call.done
    /\ ret' = is_observability_or_info(call.event_type, call.phase)
    /\ call' = [call EXCEPT !.done = TRUE]
    /\ UNCHANGED <<smVars, foVars, ccVars, sqVars, bfVars>>

NextClassify == Classify

SpecClassify == InitClassify /\ [][NextClassify]_vars

\* the classifier was called
Classified == call.fn = "is_observability_or_info" /\ call.done

\* the event types that are observability whatever the phase
AlwaysObservability == {"latency_spike", "pause_detected", "handoff", "info"}

\* C23 as stated: an event is classified observability/info exactly when its
\* type is latency_spike, pause_detected, handoff or info, or its type is
\* fallback_executed and its phase is not failover, drift or repair.
C23_ObservabilityNegativeRule ==
    Classified =>
        (ret <=> \/ call.event_type \in AlwaysObservability
                 \/ /\ call.event_type = "fallback_executed"
                    /\ call.phase \notin {"failover", "drift", "repair"})

\* C23 amended: exactly when its type is one of the four, or its type is
\* fallback_executed and its phase is none, continue, reentry or outcome; a
\* fallback_executed event whose phase is missing or not a known phase is a
\* lifecycle event.  For the seven phases the two readings agree.
C23_ObservabilityPositiveRule ==
    Classified =>
        /\ ret <=> \/ call.event_type \in AlwaysObservability
                   \/ /\ call.event_type = "fallback_executed"
                      /\ call.phase \in {"none", "continue", "reentry", "outcome"}
        /\ (call.event_type = "fallback_executed" /\ call.phase \in Phase) =>
               (ret <=> call.phase \notin {"failover", "drift", "repair"})
        /\ (call.event_type = "fallback_executed" /\ call.phase \notin Phase) => ~ret

\* C23 witness: fallback_executed with a missing phase is a lifecycle event.
C23_Witness ==
    /\ Classified
    /\ call.event_type = "fallback_executed"
    /\ call.phase = None
    /\ ret = FALSE

(***************************************************************************)
(* Part 5a: PldController.validate_event, with no schema_validator and no  *)
(* semantic_validator injected (their defaults).                           *)
(***************************************************************************)
\* class ValidationMode
ValidationMode == {"strict", "warn", "normalize"}

\* LIFECYCLE_PHASES
LIFECYCLE_PHASES == {"drift", "repair", "reentry", "continue", "outcome", "failover", "none"}

\* EVENT_TYPE_PHASE_POLICY
EVENT_TYPE_PHASE_POLICY ==
    [ drift_detected     |-> "drift",
      drift_escalated    |-> "drift",
      repair_triggered   |-> "repair",
      repair_escalated   |-> "repair",
      reentry_observed   |-> "reentry",
      continue_allowed   |-> "continue",
      continue_blocked   |-> "continue",
      failover_triggered |-> "failover",
      evaluation_pass    |-> "outcome",
      evaluation_fail    |-> "outcome",
      session_closed     |-> "outcome",
      info               |-> "none",
      latency_spike      |-> "none",
      pause_detected     |-> "none",
      fallback_executed  |-> "none",
      handoff            |-> "none" ]

\* ValidationIssue(rule_id, message, severity, field_path); message is text only
ValidationIssue(rule_id, severity, field_path) ==
    [ rule_id |-> rule_id, severity |-> severity, field_path |-> field_path ]

\* ControllerConfig: the fields validate_event reads
ControllerConfig(validation_mode) ==
    [ schema_version |-> "2.0",
      reject_major_version_mismatch |-> TRUE,
      validation_mode |-> validation_mode,
      enforce_known_phases |-> TRUE,
      enforce_event_type_phase |-> TRUE ]

\* schema_version.split(".", 1)[0] of the versions of the model
MajorOf(schema_version) ==
    CASE schema_version = "2.0" -> "2"
      [] schema_version = "2.1" -> "2"
      [] schema_version = "1.0" -> "1"

\* PldController._is_schema_version_compatible
is_schema_version_compatible(config, schema_version) ==
    IF ~config.reject_major_version_mismatch THEN TRUE
    ELSE MajorOf(schema_version) = MajorOf(config.schema_version)

\* the schema_version check of validate_event
check_schema_version(config, ev) ==
    IF ev.schema_version # None /\ ~is_schema_version_compatible(config, ev.schema_version)
    THEN << ValidationIssue("VER-001", "MUST", "schema_version") >>
    ELSE << >>

\* PldController._check_phase_membership
check_phase_membership(config, ev) ==
    IF ev.phase = None
    THEN << ValidationIssue("PHASE-001", "MUST", "pld.phase") >>
    ELSE IF ev.phase \notin LIFECYCLE_PHASES /\ config.enforce_known_phases
    THEN << ValidationIssue("PHASE-001", "MUST", "pld.phase") >>
    ELSE << >>

\* The policy check that reports a mismatch as a SHOULD-level issue (used to
\* test the claims)
check_event_type_phase_policy_AllShould(config, ev) ==
    IF ~config.enforce_event_type_phase THEN << >>
    ELSE IF ev.event_type = None \/ ev.phase = None THEN << >>
    ELSE IF Get(EVENT_TYPE_PHASE_POLICY, ev.event_type) = None THEN << >>
    ELSE IF ev.phase # Get(EVENT_TYPE_PHASE_POLICY, ev.event_type)
    THEN << ValidationIssue("CAN-EVENT-TYPE-PHASE", "SHOULD", "pld.phase") >>
    ELSE << >>

\* PldController._check_event_type_phase_policy
check_event_type_phase_policy(config, ev) ==
    IF ~config.enforce_event_type_phase THEN << >>
    ELSE IF ev.event_type = None \/ ev.phase = None THEN << >>
    ELSE IF Get(EVENT_TYPE_PHASE_POLICY, ev.event_type) = None THEN << >>
    ELSE IF ev.phase # Get(EVENT_TYPE_PHASE_POLICY, ev.event_type)
    THEN << ValidationIssue("CAN-EVENT-TYPE-PHASE", "MUST", "pld.phase") >>
    ELSE << >>

\* PldController._interpret_validation_result
interpret_validation_result(config, issues) ==
    LET must_violations == \E k \in 1..Len(issues) : issues[k].severity = "MUST"
    IN  IF config.validation_mode = "strict" THEN ~must_violations
        ELSE IF config.validation_mode = "warn" THEN ~must_violations
        ELSE IF config.validation_mode = "normalize" THEN ~must_violations
        ELSE FALSE

\* PldController.validate_event
validate_event(config, ev) ==
    LET issues == check_schema_version(config, ev)
                  \o check_phase_membership(config, ev)
                  \o check_event_type_phase_policy(config, ev)
    IN  [ is_valid |-> interpret_validation_result(config, issues),
          has_should_violations |-> \E k \in 1..Len(issues) : issues[k].severity = "SHOULD",
          issues |-> issues ]

\* schema_version values of the events: missing, the target, a compatible
\* minor version, another major version
SchemaVersions == {None, "2.0", "2.1", "1.0"}

\* event_type values: the mapped types, an unmapped type, a missing type
ControllerEventTypes == DOMAIN EVENT_TYPE_PHASE_POLICY \cup {"custom_event", None}

\* the events given to validate_event
ControllerEvents ==
    [ schema_version : SchemaVersions, event_type : ControllerEventTypes, phase : ClassifyPhases ]

InitController ==
    /\ call \in [fn : {"validate_event"}, config : {ControllerConfig(mode) : mode \in ValidationMode}, event : ControllerEvents, done : {FALSE}]
    /\ ret = None
    /\ smParked /\ foParked /\ ccParked /\ sqParked /\ bfParked

ValidateEvent ==
    /\ ~call.done
    /\ ret' = validate_event(call.config, call.event)
    /\ call' = [call EXCEPT !.done = TRUE]
    /\ UNCHANGED <<smVars, foVars, ccVars, sqVars, bfVars>>

NextController == ValidateEvent

SpecController == InitController /\ [][NextController]_vars

\* validate_event was called
Validated == call.fn = "validate_event" /\ call.done

\* the returned issues hold one of the severity
HasIssueOf(severity) == \E k \in 1..Len(ret.issues) : ret.issues[k].severity = severity

\* the event's schema_version is missing or of the controller's major version
CompatibleVersion == call.event.schema_version \in {None, "2.0", "2.1"}

\* the event types whose phase is a MUST
MustMapped ==
    {"drift_detected", "drift_escalated", "repair_triggered", "repair_escalated", "reentry_observed", "continue_allowed", "continue_blocked", "failover_triggered"}

\* the event types whose phase is a SHOULD
ShouldMapped == {"evaluation_pass", "evaluation_fail", "session_closed", "info"}

\* the only deviation of the event: a SHOULD-mapped type with a valid phase
\* other than the recommended one
OnlyShouldDeviation ==
    /\ Validated
    /\ CompatibleVersion
    /\ call.event.event_type \in ShouldMapped
    /\ call.event.phase \in LIFECYCLE_PHASES
    /\ call.event.phase # EVENT_TYPE_PHASE_POLICY[call.event.event_type]

\* C24 as stated: in every validation mode an event whose only deviation is
\* a SHOULD-mapped event type carrying a valid phase other than the
\* recommended one is valid; the deviation is a SHOULD-level issue only.
C24_ShouldNeverBlocks ==
    OnlyShouldDeviation =>
        /\ ret.is_valid
        /\ ~HasIssueOf("MUST")

\* C25: for an event with a MUST-mapped event type and a compatible schema
\* version, validate_event reports no MUST-severity issue exactly when the
\* phase is the one required for the type, and the event is valid exactly in
\* that case (in strict and warn mode, and in normalize mode as well).
C25_MustPhaseIffNoMustIssue ==
    (Validated /\ CompatibleVersion /\ call.event.event_type \in MustMapped) =>
        LET required == EVENT_TYPE_PHASE_POLICY[call.event.event_type]
        IN  /\ ~HasIssueOf("MUST") <=> (call.event.phase = required)
            /\ ret.is_valid <=> (call.event.phase = required)

\* C25 witness: in warn mode drift_detected with the valid phase repair is
\* invalid with a MUST issue on pld.phase.
C25_Witness ==
    /\ Validated
    /\ call.config.validation_mode = "warn"
    /\ call.event.schema_version = "2.1"
    /\ call.event.event_type = "drift_detected"
    /\ call.event.phase = "repair"
    /\ ~ret.is_valid
    /\ ret.issues = << ValidationIssue("CAN-EVENT-TYPE-PHASE", "MUST", "pld.phase") >>

(***************************************************************************)
(* Part 5b: RuntimeSignalBridge.build_event.  A taxonomy code is the       *)
(* sequence of its characters, so that its prefix is computed from it.     *)
(***************************************************************************)
\* str.isdigit for one character
Digits == {"0", "1", "2", "3", "4", "5", "6", "7", "8", "9"}

\* code.split("_", 1)[0]
RECURSIVE HeadOfCode(_)
HeadOfCode(code) ==
    IF code = << >> THEN << >>
    ELSE IF Head(code) = "_" THEN << >>
    ELSE << Head(code) >> \o HeadOfCode(Tail(code))

\* the loop that strips the trailing digits of head
RECURSIVE StripTrailingDigits(_)
StripTrailingDigits(head) ==
    IF head # << >> /\ head[Len(head)] \in Digits
    THEN StripTrailingDigits(SubSeq(head, 1, Len(head) - 1))
    ELSE head

\* _extract_lifecycle_prefix
extract_lifecycle_prefix(code) == StripTrailingDigits(HeadOfCode(code))

\* PREFIX_TO_PHASE.get(prefix)
PREFIX_TO_PHASE(prefix) ==
    CASE prefix = <<"D">>      -> "drift"
      [] prefix = <<"R">>      -> "repair"
      [] prefix = <<"R", "E">> -> "reentry"
      [] prefix = <<"C">>      -> "continue"
      [] prefix = <<"O">>      -> "outcome"
      [] prefix = <<"F">>      -> "failover"
      [] OTHER                 -> None

\* EVENT_TYPES_MAY_PHASE
EVENT_TYPES_MAY_PHASE == {"latency_spike", "pause_detected", "fallback_executed", "handoff"}

\* PldSemanticMapping(event_type, phase, code); default_confidence is left out
PldSemanticMapping(event_type, phase, code) ==
    [ event_type |-> event_type, phase |-> phase, code |-> code ]

\* RUNTIME_SIGNAL_MAP, by SignalKind value
RUNTIME_SIGNAL_MAP ==
    [ instruction_drift |-> PldSemanticMapping("drift_detected", "drift", <<"D", "1", "_", "i", "n", "s", "t", "r", "u", "c", "t", "i", "o", "n">>),
      context_drift |-> PldSemanticMapping("drift_detected", "drift", <<"D", "2", "_", "c", "o", "n", "t", "e", "x", "t">>),
      repeated_plan |-> PldSemanticMapping("drift_detected", "drift", <<"D", "3", "_", "r", "e", "p", "e", "a", "t", "e", "d", "_", "p", "l", "a", "n">>),
      tool_error |-> PldSemanticMapping("drift_detected", "drift", <<"D", "4", "_", "t", "o", "o", "l", "_", "e", "r", "r", "o", "r">>),
      clarification |-> PldSemanticMapping("repair_triggered", "repair", <<"R", "1", "_", "c", "l", "a", "r", "i", "f", "y">>),
      soft_repair |-> PldSemanticMapping("repair_triggered", "repair", <<"R", "2", "_", "s", "o", "f", "t", "_", "r", "e", "p", "a", "i", "r">>),
      rewrite |-> PldSemanticMapping("repair_triggered", "repair", <<"R", "3", "_", "r", "e", "w", "r", "i", "t", "e">>),
      request_user_clarification |-> PldSemanticMapping("repair_triggered", "repair", <<"R", "4", "_", "r", "e", "q", "u", "e", "s", "t", "_", "c", "l", "a", "r", "i", "f", "i", "c", "a", "t", "i", "o", "n">>),
      hard_reset |-> PldSemanticMapping("repair_triggered", "repair", <<"R", "5", "_", "h", "a", "r", "d", "_", "r", "e", "s", "e", "t">>),
      continue_normal |-> PldSemanticMapping("continue_allowed", "continue", <<"C", "0", "_", "n", "o", "r", "m", "a", "l">>),
      continue_user_turn |-> PldSemanticMapping("continue_allowed", "continue", <<"C", "0", "_", "u", "s", "e", "r", "_", "t", "u", "r", "n">>),
      continue_system_turn |-> PldSemanticMapping("continue_allowed", "continue", <<"C", "0", "_", "s", "y", "s", "t", "e", "m", "_", "t", "u", "r", "n">>),
      session_closed |-> PldSemanticMapping("session_closed", "outcome", <<"O", "0", "_", "s", "e", "s", "s", "i", "o", "n", "_", "c", "l", "o", "s", "e", "d">>),
      latency_spike |-> PldSemanticMapping("latency_spike", "none", <<"I", "N", "F", "O", "_", "l", "a", "t", "e", "n", "c", "y", "_", "s", "p", "i", "k", "e">>),
      pause_detected |-> PldSemanticMapping("pause_detected", "none", <<"I", "N", "F", "O", "_", "p", "a", "u", "s", "e", "_", "d", "e", "t", "e", "c", "t", "e", "d">>),
      metric_prdr |-> PldSemanticMapping("info", "none", <<"M", "1", "_", "P", "R", "D", "R">>),
      metric_vrl |-> PldSemanticMapping("info", "none", <<"M", "2", "_", "V", "R", "L">>),
      info |-> PldSemanticMapping("info", "none", <<"I", "N", "F", "O", "_", "g", "e", "n", "e", "r", "i", "c">>) ]

\* class SignalKind
SignalKind == DOMAIN RUNTIME_SIGNAL_MAP

\* _ensure_phase_prefix_consistency: TRUE when it returns, FALSE when it
\* raises ValueError
phase_prefix_consistent(code, phase) ==
    LET expected_phase == PREFIX_TO_PHASE(extract_lifecycle_prefix(code))
    IN  IF expected_phase # None THEN expected_phase = phase
        ELSE phase = "none"

\* RuntimeSignalBridge._resolve_phase: the phase, or ValueError when it raises
resolve_phase(validation_mode, mapping, context) ==
    LET event_type  == mapping.event_type
        required    == Get(MUST_PHASE_MAP, event_type)
        recommended == Get(SHOULD_PHASE_MAP, event_type)
        phase       == mapping.phase
    IN  IF event_type \in EVENT_TYPES_MAY_PHASE
        THEN IF context.current_phase \in VALID_PHASES THEN context.current_phase
             ELSE IF phase \notin VALID_PHASES THEN "ValueError"
             ELSE phase
        ELSE IF required # None
        THEN IF phase = required THEN phase
             ELSE IF validation_mode \in {"strict", "warn"} THEN "ValueError"
             ELSE required
        ELSE IF recommended # None
        THEN IF phase = recommended THEN phase
             ELSE IF validation_mode = "normalize" THEN recommended
             ELSE phase
        ELSE IF phase \notin VALID_PHASES THEN "ValueError"
        ELSE phase

\* RuntimeSignalBridge.build_event: the event, or the exception raised.
\* event_id, timestamp and the payload, runtime, ux, metrics and extensions
\* blocks do not depend on the phase and are left out.
build_event(validation_mode, signal, context) ==
    LET mapping == RUNTIME_SIGNAL_MAP[signal.kind]
        phase   == resolve_phase(validation_mode, mapping, context)
    IN  IF phase = "ValueError" THEN [ raised |-> "ValueError", event |-> None ]
        ELSE IF ~phase_prefix_consistent(mapping.code, phase)
        THEN [ raised |-> "ValueError", event |-> None ]
        ELSE [ raised |-> None,
               event  |-> [ schema_version |-> "2.0",
                            session_id     |-> context.session_id,
                            turn_sequence  |-> context.turn_sequence,
                            source         |-> context.source,
                            event_type     |-> mapping.event_type,
                            pld            |-> [ phase |-> phase, code |-> mapping.code ] ] ]

\* EventContext(session_id, turn_sequence, source, current_phase=...)
EventContexts ==
    [ session_id : {"s1"}, turn_sequence : {1}, source : {"runtime"}, current_phase : ClassifyPhases ]

InitBridge ==
    /\ call \in [fn : {"build_event"}, validation_mode : ValidationMode, signal : [kind : SignalKind], context : EventContexts, done : {FALSE}]
    /\ ret = None
    /\ smParked /\ foParked /\ ccParked /\ sqParked /\ bfParked

BuildEvent ==
    /\ ~call.done
    /\ ret' = build_event(call.validation_mode, call.signal, call.context)
    /\ call' = [call EXCEPT !.done = TRUE]
    /\ UNCHANGED <<smVars, foVars, ccVars, sqVars, bfVars>>

NextBridge == BuildEvent

SpecBridge == InitBridge /\ [][NextBridge]_vars

\* build_event was called with a MAY-level signal
BuiltMaySignal ==
    /\ call.fn = "build_event"
    /\ call.done
    /\ call.signal.kind \in {"latency_spike", "pause_detected"}

\* C26 as stated: for a MAY-level signal and every valid phase supplied as the
\* caller's current phase, build_event succeeds and the event carries that
\* phase; with no valid current phase it carries the mapping's default phase.
C26_MaySignalTakesCurrentPhase ==
    BuiltMaySignal =>
        /\ ret.raised = None
        /\ ret.event.pld.phase = (IF call.context.current_phase \in Phase
                                  THEN call.context.current_phase
                                  ELSE "none")

(***************************************************************************)
(* Part 5c: the stateless validator, schema_validator.py.  An event is a   *)
(* dict: a function whose domain is the set of keys it has.                *)
(***************************************************************************)
\* {}
EmptyDict == [k \in {} |-> None]

\* {**a, **b}: the items of a, overridden and extended by those of b
MergeDict(a, b) ==
    [k \in DOMAIN a \cup DOMAIN b |-> IF k \in DOMAIN b THEN b[k] ELSE a[k]]

\* d.get(key, {})
GetDict(d, key) == IF key \in DOMAIN d THEN d[key] ELSE EmptyDict

\* event.get("pld") or {}
PldOf(ev) == GetDict(ev, "pld")

\* Optional[Dict]: << >> is None and << d >> is the dict d
NoEvent == << >>

\* SchemaValidationResult
SchemaValidationResult(is_valid, errors) == [ is_valid |-> is_valid, errors |-> errors ]

\* MatrixValidationResult
MatrixValidationResult(is_valid, errors, warnings) ==
    [ is_valid |-> is_valid, errors |-> errors, warnings |-> warnings ]

\* validate_level1_schema, for a Draft 7 schema that only uses "required" at
\* the top level and under properties.pld; an error is the path of a missing
\* property
validate_level1_schema(ev, schema) ==
    LET top    == { k \in schema.required : k \notin DOMAIN ev }
        nested == IF "pld" \in DOMAIN ev
                  THEN { k \in schema.pld_required : k \notin DOMAIN ev.pld }
                  ELSE {}
        errors == top \cup { "pld." \o k : k \in nested }
    IN  SchemaValidationResult(errors = {}, errors)

\* A prefix extraction that keeps only the first character of the code (used
\* to test the claims)
validator_extract_lifecycle_prefix_FirstLetter(code) ==
    IF code = << >> THEN << >> ELSE << Head(code) >>

\* schema_validator._extract_lifecycle_prefix.  The empty prefix stands for
\* None as well: neither is a key of a matrix.
validator_extract_lifecycle_prefix(code) == StripTrailingDigits(HeadOfCode(code))

\* One entry of the error list when the condition holds
ErrorIf(cond, error) == IF cond THEN << error >> ELSE << >>

\* validate_level2_matrix
validate_level2_matrix(ev, matrix, mode) ==
    LET event_type       == Get(ev, "event_type")
        pld              == PldOf(ev)
        prefix_to_phase  == GetDict(matrix, "prefix_to_phase")
        must_phase_map   == GetDict(matrix, "must_phase_map")
        should_phase_map == GetDict(matrix, "should_phase_map")
    IN  IF event_type = None
        THEN MatrixValidationResult(FALSE, << "event_type missing" >>, << >>)
        ELSE IF "phase" \notin DOMAIN pld
        THEN MatrixValidationResult(FALSE, << "pld.phase missing" >>, << >>)
        ELSE
        LET phase            == pld.phase
            lifecycle_prefix == IF "code" \in DOMAIN pld
                                THEN validator_extract_lifecycle_prefix(pld.code)
                                ELSE << >>
            prefix_mismatch  == /\ lifecycle_prefix \in DOMAIN prefix_to_phase
                                /\ prefix_to_phase[lifecycle_prefix] # phase
            must_violated    == /\ event_type \in DOMAIN must_phase_map
                                /\ phase # must_phase_map[event_type]
            should_deviation == /\ event_type \in DOMAIN should_phase_map
                                /\ phase # should_phase_map[event_type]
            errors   == ErrorIf(prefix_mismatch, "Prefix mismatch")
                            \o ErrorIf(must_violated, "MUST rule violated")
            warnings == ErrorIf(should_deviation /\ mode \in {"warn", "normalize"}, "SHOULD rule deviation")
        IN  MatrixValidationResult(errors = << >>, errors, warnings)

\* The candidate of _normalize_event_if_possible, lines 379-382: dict(event)
\* with "pld" set to dict(raw_pld) with "phase" set to the required phase
NormalizedCopy(ev, required_phase) ==
    MergeDict(ev, [ pld |-> MergeDict(PldOf(ev), [ phase |-> required_phase ]) ])

\* _normalize_event_if_possible without the strict re-validation of the
\* candidate (used to test the claims)
normalize_event_if_possible_NoRevalidation(ev, schema_result, matrix_result, matrix) ==
    LET must_phase_map == GetDict(matrix, "must_phase_map")
        event_type     == Get(ev, "event_type")
    IN  IF ~schema_result.is_valid \/ matrix_result.is_valid THEN NoEvent
        ELSE IF event_type \notin DOMAIN must_phase_map THEN NoEvent
        ELSE << NormalizedCopy(ev, must_phase_map[event_type]) >>

\* _normalize_event_if_possible building the candidate's pld block from the
\* required phase alone (used to test the claims)
normalize_event_if_possible_FreshPld(ev, schema_result, matrix_result, matrix) ==
    LET must_phase_map == GetDict(matrix, "must_phase_map")
        event_type     == Get(ev, "event_type")
        required_phase == must_phase_map[event_type]
        normalized     == MergeDict(ev, [ pld |-> [ phase |-> required_phase ] ])
    IN  IF ~schema_result.is_valid \/ matrix_result.is_valid THEN NoEvent
        ELSE IF event_type \notin DOMAIN must_phase_map THEN NoEvent
        ELSE IF Get(PldOf(ev), "phase") = required_phase THEN NoEvent
        ELSE IF ~validate_level2_matrix(normalized, matrix, "strict").is_valid THEN NoEvent
        ELSE << normalized >>

\* _normalize_event_if_possible.  The matrices of the model hold dicts, so
\* the isinstance test of line 366 passes.
normalize_event_if_possible(ev, schema_result, matrix_result, matrix) ==
    LET must_phase_map == GetDict(matrix, "must_phase_map")
        event_type     == Get(ev, "event_type")
        raw_pld        == PldOf(ev)
        current_phase  == Get(raw_pld, "phase")
        required_phase == must_phase_map[event_type]
        normalized     == NormalizedCopy(ev, required_phase)
    IN  IF ~schema_result.is_valid THEN NoEvent
        ELSE IF matrix_result.is_valid THEN NoEvent
        ELSE IF event_type \notin DOMAIN must_phase_map THEN NoEvent
        ELSE IF current_phase = required_phase THEN NoEvent
        ELSE IF ~validate_level2_matrix(normalized, matrix, "strict").is_valid THEN NoEvent
        ELSE << normalized >>

\* PLDValidationResult
PLDValidationResult(schema_result, matrix_result, normalized_event) ==
    [ schema_valid     |-> schema_result.is_valid,
      matrix_valid     |-> matrix_result.is_valid,
      schema           |-> schema_result,
      matrix           |-> matrix_result,
      normalized_event |-> normalized_event,
      fatal_error      |-> None ]

\* validate_pld_event_with_resources
validate_pld_event_with_resources(ev, mode, schema, matrix) ==
    LET schema_result == validate_level1_schema(ev, schema)
        matrix_result == validate_level2_matrix(ev, matrix, mode)
        normalized_event ==
            IF mode = "normalize"
            THEN normalize_event_if_possible(ev, schema_result, matrix_result, matrix)
            ELSE NoEvent
    IN  PLDValidationResult(schema_result, matrix_result, normalized_event)

\* The caller's event object after the call: the validator assigns only to
\* `normalized` and `new_pld`, the copies made by dict(event) and
\* dict(raw_pld), never to `event` or to its pld block
EventAfterValidation(ev, result) == ev

\* Taxonomy codes of the inputs: D1_a, D42_a, R2_a, RE1_a, C0_a, M1_a, INFO_a, D12
TaxonomyCodes ==
    { <<"D", "1", "_", "a">>,
      <<"D", "4", "2", "_", "a">>,
      <<"R", "2", "_", "a">>,
      <<"R", "E", "1", "_", "a">>,
      <<"C", "0", "_", "a">>,
      <<"M", "1", "_", "a">>,
      <<"I", "N", "F", "O", "_", "a">>,
      <<"D", "1", "2">> }

\* pld blocks: {} or a dict with a phase, a code, both or neither key
PldBlocks ==
    { MergeDict(p, c) : p \in {EmptyDict} \cup { [ phase |-> ph ] : ph \in {"drift", "repair", "continue", "none", "bogus"} }, c \in {EmptyDict} \cup { [ code |-> cd ] : cd \in TaxonomyCodes } }

\* Event types of the inputs
ValidatorEventTypes ==
    {"drift_detected", "repair_triggered", "continue_allowed", "session_closed", "info", "latency_spike"}

\* Events: a session_id, and optionally an event_type and a pld block
ValidatorEvents ==
    { MergeDict([ session_id |-> "s1" ], MergeDict(t, p)) : t \in {EmptyDict} \cup { [ event_type |-> et ] : et \in ValidatorEventTypes }, p \in {EmptyDict} \cup { [ pld |-> b ] : b \in PldBlocks } }

\* Level 1 schemas: {} and one that requires event_type, pld and pld.phase
Schemas ==
    { [ required |-> {}, pld_required |-> {} ],
      [ required |-> {"event_type", "pld"}, pld_required |-> {"phase"} ] }

\* prefix_to_phase of the Level 2 matrix
PrefixToPhase ==
    [ prefix \in {<<"D">>, <<"R">>, <<"R", "E">>, <<"C">>, <<"O">>, <<"F">>} |-> PREFIX_TO_PHASE(prefix) ]

\* Level 2 matrices: the full one, one without prefix_to_phase and one
\* without must_phase_map
Matrices ==
    { [ prefix_to_phase |-> PrefixToPhase, must_phase_map |-> MUST_PHASE_MAP, should_phase_map |-> SHOULD_PHASE_MAP ],
      [ must_phase_map |-> MUST_PHASE_MAP, should_phase_map |-> SHOULD_PHASE_MAP ],
      [ prefix_to_phase |-> PrefixToPhase, should_phase_map |-> SHOULD_PHASE_MAP ] }

InitValidator ==
    /\ call \in [fn : {"validate_pld_event_with_resources"}, event : ValidatorEvents, mode : ValidationMode, schema : Schemas, matrix : Matrices, done : {FALSE}]
    /\ ret = None
    /\ smParked /\ foParked /\ ccParked /\ sqParked /\ bfParked

ValidatePldEvent ==
    /\ ~call.done
    /\ ret' = validate_pld_event_with_resources(call.event, call.mode, call.schema, call.matrix)
    /\ call' = [call EXCEPT !.done = TRUE, !.event = EventAfterValidation(call.event, ret')]
    /\ UNCHANGED <<smVars, foVars, ccVars, sqVars, bfVars>>

NextValidator == ValidatePldEvent

SpecValidator == InitValidator /\ [][NextValidator]_vars

\* validate_pld_event_with_resources has returned
ValidatorReturned == call.fn = "validate_pld_event_with_resources" /\ call.done

\* The event type has a MUST phase in the matrix
ValidatorMustMapped ==
    Get(call.event, "event_type") \in DOMAIN GetDict(call.matrix, "must_phase_map")

\* The input with its phase replaced by the MUST phase of its event type
RequiredPhaseCandidate ==
    LET required == GetDict(call.matrix, "must_phase_map")[Get(call.event, "event_type")]
    IN  [ k \in DOMAIN call.event \cup {"pld"} |->
            IF k = "pld"
            THEN [ f \in DOMAIN PldOf(call.event) \cup {"phase"} |->
                     IF f = "phase" THEN required ELSE call.event.pld[f] ]
            ELSE call.event[k] ]

\* The candidate passes strict Level 2 validation without a MUST error
CandidatePassesStrict ==
    validate_level2_matrix(RequiredPhaseCandidate, call.matrix, "strict").errors = << >>

\* C27: the validator returns a normalized candidate exactly when the mode
\* is normalize, the input is schema-valid, it has a MUST violation, its event
\* type is MUST-mapped and the candidate with the required phase passes strict
\* re-validation; otherwise, and always in strict and warn mode, it returns
\* none.
C27_CandidateOnlyWhenCorrectable ==
    ValidatorReturned =>
        ( (ret.normalized_event # NoEvent) <=>
            ( /\ call.mode = "normalize"
              /\ ret.schema_valid
              /\ ~ret.matrix_valid
              /\ ValidatorMustMapped
              /\ CandidatePassesStrict ) )

C27_Witness ==
    /\ ValidatorReturned
    /\ ret.normalized_event # NoEvent
    /\ "phase" \in DOMAIN PldOf(call.event)
    /\ call.matrix = [ prefix_to_phase |-> PrefixToPhase, must_phase_map |-> MUST_PHASE_MAP, should_phase_map |-> SHOULD_PHASE_MAP ]

\* The candidate and the input agree on every key but pld, and their pld
\* blocks agree on every key but phase
SameExceptPhase(candidate, input) ==
    /\ \A k \in (DOMAIN candidate \cup DOMAIN input) \ {"pld"} :
         k \in DOMAIN candidate /\ k \in DOMAIN input /\ candidate[k] = input[k]
    /\ \A f \in (DOMAIN PldOf(candidate) \cup DOMAIN PldOf(input)) \ {"phase"} :
         f \in DOMAIN PldOf(candidate) /\ f \in DOMAIN PldOf(input) /\ PldOf(candidate)[f] = PldOf(input)[f]

Violation(level, code, field_path, normalized) ==
    [ level |-> level, code |-> code, field_path |-> field_path, normalized |-> normalized ]

\* NormalizationResult
NormalizationResult(ev, vs, mode, is_schema_valid) ==
    [ event |-> ev, violations |-> vs, mode |-> mode, is_schema_valid |-> is_schema_valid ]

\* NormalizationResult.is_matrix_valid
is_matrix_valid(result) ==
    ~ \E i \in 1..Len(result.violations) :
         result.violations[i].level = "MUST" /\ ~result.violations[i].normalized

\* NormalizationResult.is_pld_valid
is_pld_valid(result) == result.is_schema_valid /\ is_matrix_valid(result)

\* _enforce_schema_version: the violations it appends
enforce_schema_version(ev) ==
    ErrorIf(Get(ev, "schema_version") # "2.0", Violation("MUST", "SCHEMA_VERSION_MISMATCH", "schema_version", FALSE))

\* normalization._extract_prefix
extract_prefix(code) == StripTrailingDigits(HeadOfCode(code))

\* pld["phase"] = phase, on the pld dict of the working event
SetPhase(ev, phase) == [ev EXCEPT !.pld = MergeDict(ev.pld, [ phase |-> phase ])]

\* _enforce_event_type_phase: the violations it appends
enforce_event_type_phase(pld, event_type) ==
    ErrorIf(event_type \in DOMAIN SHOULD_PHASE_MAP /\ Get(pld, "phase") # Get(SHOULD_PHASE_MAP, event_type), Violation("SHOULD", "SHOULD_PHASE_MISMATCH", "pld.phase", FALSE))

\* _enforce_prefix_phase: the violations it appends
enforce_prefix_phase(pld) ==
    ErrorIf(Get(pld, "phase") = "none" /\ PREFIX_TO_PHASE(extract_prefix(pld.code)) # None, Violation("MUST", "NONE_PHASE_LIFECYCLE_PREFIX", "pld.code", FALSE))

\* _infer_phase_for_may_event
infer_phase_for_may_event(event_type, context, current_phase) ==
    LET ctx_phase == Get(context, "current_phase")
    IN  IF event_type = "fallback_executed"
        THEN IF ctx_phase \in {"repair", "failover"} THEN ctx_phase ELSE "failover"
        ELSE IF event_type \in {"latency_spike", "pause_detected", "handoff"}
        THEN IF ctx_phase # None THEN ctx_phase ELSE "none"
        ELSE current_phase

\* A conflict rule that gives way to the prefix once the phase is the one
\* the event type requires (used to test the claims)
ConflictWinner_Alternating(phase, required_from_type, required_from_prefix) ==
    IF phase = required_from_type THEN required_from_prefix ELSE required_from_type

\* winning_phase = required_from_type, line 182
ConflictWinner(phase, required_from_type, required_from_prefix) == required_from_type

\* _normalize_and_validate_semantics: the working event and the violation
\* list after the call
normalize_and_validate_semantics(ev, mode, vs, context) ==
    LET pld        == PldOf(ev)
        phase      == Get(pld, "phase")
        has_code   == "code" \in DOMAIN pld
        event_type == Get(ev, "event_type")
        required_from_type   == Get(MUST_PHASE_MAP, event_type)
        required_from_prefix == IF has_code THEN PREFIX_TO_PHASE(extract_prefix(pld.code)) ELSE None
        winning_phase  == ConflictWinner(phase, required_from_type, required_from_prefix)
        final_required == IF required_from_type # None THEN required_from_type ELSE required_from_prefix
        mismatch       == final_required # None /\ phase # final_required
        corrected      == IF mismatch /\ mode = "normalize" THEN SetPhase(ev, final_required) ELSE ev
        new_pld        == PldOf(corrected)
    IN  IF phase \notin VALID_PHASES
        THEN [ event |-> ev, violations |-> Append(vs, Violation("MUST", "INVALID_PHASE", "pld.phase", FALSE)) ]
        ELSE IF required_from_type # None /\ required_from_prefix # None /\ required_from_type # required_from_prefix
        THEN IF mode = "normalize"
             THEN [ event |-> SetPhase(ev, winning_phase), violations |-> Append(vs, Violation("MUST", "PHASE_CONFLICT_RESOLVED", "pld.phase", TRUE)) ]
             ELSE [ event |-> ev, violations |-> Append(vs, Violation("MUST", "CONFLICT_EVENTTYPE_PREFIX", "pld.phase", FALSE)) ]
        ELSE [ event |-> corrected,
               violations |->
                   vs \o ErrorIf(mismatch /\ mode = "normalize", Violation("MUST", "PHASE_NORMALIZED", "pld.phase", TRUE))
                      \o ErrorIf(mismatch /\ mode # "normalize", Violation("MUST", "PHASE_MISMATCH_REQUIRED", "pld.phase", FALSE))
                      \o enforce_event_type_phase(new_pld, event_type)
                      \o (IF has_code THEN enforce_prefix_phase(new_pld) ELSE << >>)
                      \o ErrorIf(/\ mode = "normalize"
                                 /\ event_type \in EVENT_TYPES_MAY_PHASE
                                 /\ infer_phase_for_may_event(event_type, context, Get(new_pld, "phase")) # Get(new_pld, "phase"),
                                 Violation("SHOULD", "PHASE_INFERENCE_DIFFERENCE", "pld.phase", FALSE)) ]

\* _validate_runtime_operational_rules: the violations it appends
validate_runtime_operational_rules(ev) ==
    LET pld        == PldOf(ev)
        event_type == Get(ev, "event_type")
        phase      == Get(pld, "phase")
        m_prefix   == "code" \in DOMAIN pld /\ pld.code # << >> /\ Head(pld.code) = "M"
    IN  ErrorIf(event_type = "session_closed" /\ phase \notin {"outcome", "none"}, Violation("SHOULD", "SESSION_CLOSED_PHASE_SHOULD", "pld.phase", FALSE))
          \o ErrorIf(m_prefix /\ (event_type # "info" \/ phase # "none"), Violation("MUST", "M_PREFIX_MAPPING", "pld.code", FALSE))

\* normalize_event.  schema_validator is << >> for None and << schema >> for
\* make_jsonschema_validator(schema), which reports one message when the
\* event is invalid.
normalize_event(ev, mode, schema_validator, context) ==
    LET working   == ev
        schema_ok == schema_validator = << >> \/ validate_level1_schema(working, schema_validator[1]).is_valid
        versioned == enforce_schema_version(working)
        semantics == normalize_and_validate_semantics(working, mode, versioned, context)
    IN  IF ~schema_ok
        THEN NormalizationResult(working, << Violation("MUST", "SCHEMA_INVALID", "", FALSE) >>, mode, FALSE)
        ELSE NormalizationResult(semantics.event, semantics.violations \o validate_runtime_operational_rules(semantics.event), mode, TRUE)

\* The caller's event object after normalize_event: every assignment goes to
\* `working`, the copy made by copy.deepcopy(event)
EventAfterNormalization(ev, working) == ev

\* Event types of the inputs
NormalizationEventTypes == ValidatorEventTypes \cup {"fallback_executed"}

\* Events: optionally a schema_version, an event_type and a pld block
NormalizationEvents ==
    { MergeDict(v, MergeDict(t, p)) : v \in {EmptyDict, [ schema_version |-> "2.0" ], [ schema_version |-> "1.0" ]}, t \in {EmptyDict} \cup { [ event_type |-> et ] : et \in NormalizationEventTypes }, p \in {EmptyDict} \cup { [ pld |-> b ] : b \in PldBlocks } }

\* context: None or {}, or a dict with a current_phase
NormalizationContexts == { EmptyDict, [ current_phase |-> "repair" ], [ current_phase |-> "drift" ] }

\* schema_validator: None, or the jsonschema adapter of one of the schemas
SchemaValidators == { << >> } \cup { << schema >> : schema \in Schemas }

InitNormalization ==
    /\ call \in [fn : {"normalize_event"}, event : NormalizationEvents, mode : ValidationMode, schema_validator : SchemaValidators, context : NormalizationContexts, done : {FALSE}]
    /\ ret = None
    /\ smParked /\ foParked /\ ccParked /\ sqParked /\ bfParked

\* result = normalize_event(event, mode=..., schema_validator=..., context=...)
NormalizeEvent ==
    /\ ~call.done
    /\ LET result == normalize_event(call.event, call.mode, call.schema_validator, call.context)
       IN  /\ ret' = [ first |-> result, again |-> << >> ]
           /\ call' = [call EXCEPT !.done = TRUE, !.event = EventAfterNormalization(call.event, result.event)]
    /\ UNCHANGED <<smVars, foVars, ccVars, sqVars, bfVars>>

\* normalize_event(result.event, mode=NORMALIZE, ...): a second application
\* to the event the first one returned
NormalizeAgain ==
    /\ call.done
    /\ ret.again = << >>
    /\ LET result == normalize_event(ret.first.event, "normalize", call.schema_validator, call.context)
       IN  ret' = [ first |-> [ret.first EXCEPT !.event = EventAfterNormalization(ret.first.event, result.event)], again |-> << result >> ]
    /\ UNCHANGED call
    /\ UNCHANGED <<smVars, foVars, ccVars, sqVars, bfVars>>

NextNormalization == NormalizeEvent \/ NormalizeAgain

SpecNormalization == InitNormalization /\ [][NextNormalization]_vars

\* normalize_event has returned in normalize mode
NormalizedInNormalizeMode ==
    call.fn = "normalize_event" /\ call.done /\ call.mode = "normalize"

\* pld.phase of an event, None when it has none
PhaseOf(ev) == Get(PldOf(ev), "phase")

\* The event satisfies the MUST rules: the phase its event type requires,
\* the phase its code's lifecycle prefix implies, and none for a code whose
\* prefix is not a lifecycle prefix
SatisfiesMustRules(ev) ==
    LET event_type == Get(ev, "event_type")
        implied    == IF "code" \in DOMAIN PldOf(ev) THEN PREFIX_TO_PHASE(extract_prefix(ev.pld.code)) ELSE None
    IN  /\ (event_type \in DOMAIN MUST_PHASE_MAP) => (PhaseOf(ev) = MUST_PHASE_MAP[event_type])
        /\ (implied # None) => (PhaseOf(ev) = implied)
        /\ ("code" \in DOMAIN PldOf(ev) /\ implied = None) => (PhaseOf(ev) = "none")

\* C29 as stated: an event that normalize_event reports PLD-valid in
\* normalize mode satisfies every MUST rule.
C29_ValidImpliesMustRules ==
    (NormalizedInNormalizeMode /\ is_pld_valid(ret.first)) => SatisfiesMustRules(ret.first.event)

ValidatedCodedEvent ==
    /\ ValidatorReturned
    /\ "event_type" \in DOMAIN call.event
    /\ "phase" \in DOMAIN PldOf(call.event)
    /\ "code" \in DOMAIN PldOf(call.event)

\* The text of a code before its first underscore
PrefixSegment(code) ==
    LET stops == { i \in 1..Len(code) : code[i] = "_" }
        end   == IF stops = {} THEN Len(code) ELSE (CHOOSE i \in stops : \A j \in stops : i <= j) - 1
    IN  SubSeq(code, 1, end)

\* The prefix segment without its trailing digits: its longest initial part
\* that does not end in a digit
SegmentLetters(code) ==
    LET seg  == PrefixSegment(code)
        keep == { n \in 0..Len(seg) : (n = 0 \/ seg[n] \notin Digits) /\ \A i \in (n + 1)..Len(seg) : seg[i] \in Digits }
    IN  SubSeq(seg, 1, CHOOSE n \in keep : TRUE)

\* A MUST error of the given kind is in the Level 2 result
MatrixErrorReported(error) ==
    \E i \in 1..Len(ret.matrix.errors) : ret.matrix.errors[i] = error

\* C31 as stated: an event whose code has a prefix that is not in the
\* prefix-to-phase table and whose phase is not none gets a MUST error from
\* validate_level2_matrix, so is_valid is false in every mode.
C31_NonLifecyclePrefixNeedsNone ==
    ( /\ ValidatedCodedEvent
      /\ SegmentLetters(call.event.pld.code) \notin DOMAIN PrefixToPhase
      /\ call.event.pld.phase # "none" ) => ~ret.matrix.is_valid

\* C32: for a code whose prefix segment without trailing digits is a
\* lifecycle prefix, validate_level2_matrix reports the prefix error exactly
\* when the phase differs from the phase mapped to that prefix.
C32_LifecyclePrefixMatchesPhase ==
    ( /\ ValidatedCodedEvent
      /\ "prefix_to_phase" \in DOMAIN call.matrix
      /\ SegmentLetters(call.event.pld.code) \in DOMAIN PrefixToPhase ) =>
        ( MatrixErrorReported("Prefix mismatch") <=>
            call.event.pld.phase # PrefixToPhase[SegmentLetters(call.event.pld.code)] )

\* C32: RE1_a with phase repair is reported, R is not taken for RE
C32_Witness ==
    /\ ValidatedCodedEvent
    /\ "prefix_to_phase" \in DOMAIN call.matrix
    /\ call.event.pld.code = <<"R", "E", "1", "_", "a">>
    /\ call.event.pld.phase = "repair"
    /\ MatrixErrorReported("Prefix mismatch")

(***************************************************************************)
(* Part 6: the reconciliation and backoff policies as functions of their   *)
(* arguments.                                                              *)
(***************************************************************************)
\* A Python value with its type: int, bool, float, str or NoneType.  A bool
\* holds 0 or 1, a float holds twice its value.
PyValue(type, value) == [ type |-> type, value |-> value ]

\* isinstance(attempt, int): bool is a subclass of int
IsInstanceInt(v) == v.type \in {"int", "bool"}

\* state.get("attempt_count")
AttemptCountOf(st) ==
    IF "attempt_count" \in DOMAIN st THEN st.attempt_count ELSE PyValue("NoneType", 0)

\* ThresholdReconciliationPolicy.evaluate on a state mapping
ThresholdPolicyEvaluate(threshold, st) ==
    LET attempt == AttemptCountOf(st)
    IN  IF ~IsInstanceInt(attempt)
        THEN ReconciliationResult("unknown", "invalid_attempt_value")
        ELSE ThresholdEvaluate(threshold, attempt.value)

\* policy.evaluate(state) of a built-in policy
PolicyEvaluate(policy, st) ==
    IF policy.kind = "noop" THEN NoOpEvaluate(st)
    ELSE ThresholdPolicyEvaluate(policy.threshold, st)

\* Values found under attempt_count: ints around the thresholds, True,
\* False, 1.5, 2.0, "2" and None
AttemptValues ==
    { PyValue("int", n) : n \in (-1)..(MaxAttempts + 2) }
      \cup { PyValue("bool", 0), PyValue("bool", 1), PyValue("float", 3), PyValue("float", 4), PyValue("str", 2), PyValue("NoneType", 0) }

\* State mappings: with or without attempt_count and last_event_type
PolicyStates ==
    { MergeDict(a, t) : a \in {EmptyDict} \cup { [ attempt_count |-> v ] : v \in AttemptValues }, t \in {EmptyDict, [ last_event_type |-> "failover_triggered" ]} }

\* The built-in policies
BuiltinPolicies ==
    { [kind |-> "noop"] } \cup { [kind |-> "threshold", threshold |-> n] : n \in 1..(MaxAttempts + 1) }

InitPolicy ==
    /\ call \in [fn : {"evaluate"}, policy : BuiltinPolicies, state : PolicyStates, done : {FALSE}]
    /\ ret = None
    /\ smParked /\ foParked /\ ccParked /\ sqParked /\ bfParked

EvaluatePolicy ==
    /\ ~call.done
    /\ ret' = PolicyEvaluate(call.policy, call.state)
    /\ call' = [call EXCEPT !.done = TRUE]
    /\ UNCHANGED <<smVars, foVars, ccVars, sqVars, bfVars>>

NextPolicy == EvaluatePolicy

SpecPolicy == InitPolicy /\ [][NextPolicy]_vars

\* policy.evaluate has returned
PolicyEvaluated == call.fn = "evaluate" /\ call.done

\* The attempt count of the call is an integer n with lo <= n <= hi
AttemptWithin(lo, hi) ==
    /\ "attempt_count" \in DOMAIN call.state
    /\ call.state.attempt_count.type \in {"int", "bool"}
    /\ lo <= call.state.attempt_count.value
    /\ call.state.attempt_count.value <= hi

\* The outcome the threshold rule prescribes for the call
PrescribedOutcome ==
    LET n == call.policy.threshold
    IN  IF AttemptWithin(1, n - 1) THEN "continue"
        ELSE IF AttemptWithin(n, n) THEN "recover"
        ELSE IF AttemptWithin(n + 1, MaxAttempts + 3) THEN "finalize"
        ELSE "unknown"

\* C33: Threshold(n) returns continue for an integer attempt with
\* 1 <= attempt < n, recover for attempt = n, finalize for attempt > n and
\* unknown when the attempt is missing, not an integer or below 1; NoOp returns
\* unknown for every input.
C33_ThresholdOutcomes ==
    PolicyEvaluated =>
        /\ (call.policy.kind = "noop") => (ret.outcome = "unknown")
        /\ (call.policy.kind = "threshold") => (ret.outcome = PrescribedOutcome)

C33_Witness ==
    /\ PolicyEvaluated
    /\ call.policy.kind = "threshold"
    /\ AttemptWithin(call.policy.threshold, call.policy.threshold)
    /\ ret.outcome = "recover"

(***************************************************************************)
(* The backoff policies: next_delay(attempt), then next_delay(attempt + 1). *)
(***************************************************************************)
\* Policies of the calls: those of the orchestrators, ExponentialBackoff(1.0,
\* 2.0, 30.0), ExponentialBackoff(4.0, 2.0) and ExponentialBackoff(1.0, 4.0)
BackoffInputs ==
    BackoffPolicies \cup
    { [kind |-> "exponential", base_seconds |-> Float(1, 0), factor |-> Float(1, 1), max_seconds |-> Float(15, 1)],
      [kind |-> "exponential", base_seconds |-> Float(1, 2), factor |-> Float(1, 1), max_seconds |-> NoCap],
      [kind |-> "exponential", base_seconds |-> Float(1, 0), factor |-> Float(1, 2), max_seconds |-> NoCap] }

\* Attempt numbers of the calls: up to where factor ** (attempt - 1) leaves
\* the range of a float
BackoffAttempts == (-1)..(FloatMaxExp + 2)

InitBackoff ==
    /\ call \in [fn : {"next_delay"}, policy : BackoffInputs, attempt : BackoffAttempts, done : {FALSE}]
    /\ ret = None
    /\ smParked /\ foParked /\ ccParked /\ sqParked /\ bfParked

\* delay = policy.next_delay(attempt)
NextDelay ==
    /\ ~call.done
    /\ ret' = [ delay |-> next_delay(call.policy, call.attempt), after |-> NoDelay ]
    /\ call' = [call EXCEPT !.done = TRUE]
    /\ UNCHANGED <<smVars, foVars, ccVars, sqVars, bfVars>>

\* policy.next_delay(attempt + 1), the delay of the following attempt
NextDelayAfter ==
    /\ call.done
    /\ ret.after = NoDelay
    /\ ret' = [ret EXCEPT !.after = next_delay(call.policy, call.attempt + 1)]
    /\ UNCHANGED call
    /\ UNCHANGED <<smVars, foVars, ccVars, sqVars, bfVars>>

NextBackoff == NextDelay \/ NextDelayAfter

SpecBackoff == InitBackoff /\ [][NextBackoff]_vars

\* next_delay has returned or raised
NextDelayCalled == call.fn = "next_delay" /\ call.done

\* The value is a delay, not an exception
IsDelay(v) == "mant" \in DOMAIN v

\* base * factor^(attempt - 1) as a number, limited to the cap when one is set
CappedExponential ==
    LET exact == Float(call.policy.base_seconds.mant, call.policy.base_seconds.exp + call.policy.factor.exp * (call.attempt - 1))
    IN  IF call.policy.max_seconds # NoCap /\ ~FloatLeq(exact, call.policy.max_seconds)
        THEN call.policy.max_seconds
        ELSE exact

\* C34 as stated: for every attempt >= 1 ExponentialBackoff.next_delay
\* returns base * factor^(attempt - 1) limited to the cap, which never exceeds
\* the cap and is not above the delay of the next attempt; for attempt < 1
\* every policy raises an error.
C34_ExponentialDelay ==
    NextDelayCalled =>
        /\ (call.attempt < 1) => ~IsDelay(ret.delay)
        /\ (call.attempt >= 1 /\ call.policy.kind = "exponential") =>
              /\ IsDelay(ret.delay)
              /\ ret.delay = CappedExponential
              /\ (call.policy.max_seconds # NoCap) => FloatLeq(ret.delay, call.policy.max_seconds)
              /\ (ret.after # NoDelay) => (IsDelay(ret.after) /\ FloatLeq(ret.delay, ret.after))

(***************************************************************************)
(* Further claims about the failover loop.                                 *)
(***************************************************************************)
\* The state is one that a recover outcome has set back to idle
Recovered == fstate.status = "idle" /\ fstate.attempt >= 1

\* C35: in every state reached from initialize by run_step calls,
\* 0 <= attempt <= max_attempts; a step that invokes the strategy adds exactly
\* one to attempt and a step that does not leaves it unchanged; attempt is
\* never reset, so a step on a recovered (idle) state below the limit runs the
\* strategy again with the next attempt number.
C35_AttemptBounds ==
    [][ RunStep =>
          /\ 0 <= fstate.attempt /\ fstate.attempt <= orch.max_attempts
          /\ 0 <= fstate'.attempt /\ fstate'.attempt <= orch.max_attempts
          /\ StrategyInvoked => (fstate'.attempt = fstate.attempt + 1)
          /\ (~StrategyInvoked) => (fstate'.attempt = fstate.attempt /\ strategy_calls' = strategy_calls)
          /\ (Recovered /\ fstate.attempt < orch.max_attempts) =>
                (StrategyInvoked /\ fstate'.attempt = fstate.attempt + 1) ]_vars

\* C35 witness: the first step ended in recover, and the second step ran the
\* strategy again as attempt 2.
C35_Witness ==
    /\ calls = 2
    /\ outcomes[1] = "recover"
    /\ strategy_calls = 2
    /\ fstate.attempt = 2

\* C36 as stated: with callers that run run_step concurrently on the shared
\* state and serialize only the installation by compare-and-swap, the
\* strategy is executed at most max_attempts times in total.
C36_StrategyRunsBounded ==
    strategy_calls <= orch.max_attempts

(***************************************************************************)
(* Further claims about the state machine.                                 *)
(***************************************************************************)
\* ev is one of the events that may end failover: session_closed, or a
\* recovery event
EndsFailover(ev) == ev.event_type = "session_closed" \/ IsRecovery(ev)

\* C37: failover_active turns from false to true only in a call whose event is
\* failover_triggered with phase failover, and from true to false only in a
\* call whose event is session_closed, reentry_observed/reentry or
\* continue_allowed/continue; every other event leaves it as it was, also when
\* it moves the current phase away from failover.
C37_FailoverActiveChanges ==
    [][/\ (~state.failover_active /\ state'.failover_active
             => IsFailoverEntry(event'))
       /\ (state.failover_active /\ ~state'.failover_active
             => EndsFailover(event'))
       /\ (~IsFailoverEntry(event') /\ ~EndsFailover(event')
             => state'.failover_active = state.failover_active)]_vars

\* C37 witness: while failover was active, evaluation_pass with phase outcome
\* moved the current phase from failover to outcome and failover stayed active.
C37_Witness ==
    /\ event.event_type = "evaluation_pass"
    /\ event.phase = "outcome"
    /\ reason = "failover_nonterminal_transition"
    /\ state.current_phase = "outcome"
    /\ state.failover_active

\* C38 (as stated): on a transcript that starts with continue_allowed/continue
\* at turn_sequence 1 and in which every event carries the phase mapped to its
\* event type and a phase that is an allowed successor of the current phase,
\* apply_event records no violation at any step.
C38_NoViolationOnRespectfulTranscript ==
    respected => violations = << >>

\* C38 (amended): on such a transcript apply_event records no violation at any
\* step whose event is not a drift event applied while failover is active; at
\* such a step it records drift_after_failover and nothing else.
C38_NoViolationButDriftAfterFailover ==
    [][respected' =>
        violations' = IF state.failover_active /\ IsDrift(event')
                      THEN << <<"failover_rule_violation", "drift_after_failover">> >>
                      ELSE << >>]_vars

\* C38 witness: a transcript that kept to the rules went through failover and
\* left it by reentry_observed without a violation.
C38_Witness ==
    /\ respected
    /\ reason = "failover_recovered_via_reentry"
    /\ state.current_phase = "reentry"
    /\ violations = << >>

(***************************************************************************)
(* Further claims about the sequence rule checker.                         *)
(***************************************************************************)
\* the positions of session sid's session_closed events
Closures(sid) ==
    { j \in Positions : /\ transcript[j].session_id = sid
                        /\ transcript[j].event_type = "session_closed" }

\* the positions of sid's events that come, in input order, after a
\* session_closed event of sid
PositionedAfterClosure(sid) ==
    { i \in Positions : /\ transcript[i].session_id = sid
                        /\ \E j \in Closures(sid) : j < i }

\* the event at i is an observability/info event whose turn_sequence is
\* above that of every session_closed event of its session
HarmlessAfterClosure(i) ==
    /\ IsObservability(i)
    /\ \A j \in Closures(transcript[i].session_id) :
           transcript[i].turn_sequence > transcript[j].turn_sequence

\* C39: a session with an event positioned after a session_closed event in
\* the input order gets at least one violation of SR-001, SR-002A, SR-002B
\* or SR-004, whatever the turn_sequence values are, and the session is
\* invalid unless the only such events are observability/info events with
\* turn_sequence above every closure.
C39_EventAfterClosureReported ==
    \A sid \in Sessions :
        PositionedAfterClosure(sid) # {} =>
            /\ \E rule \in {"SR-001", "SR-002A", "SR-002B", "SR-004"} :
                   RuleCount(sid, rule) >= 1
            /\ (\E i \in PositionedAfterClosure(sid) : ~HarmlessAfterClosure(i))
                   => ~ResultFor(sid).is_valid

\* C39 witness: a lifecycle event follows the closure in the input order with
\* a lower turn_sequence; the closure rule is silent and SR-001 reports it.
C39_Witness ==
    /\ Len(transcript) = 2
    /\ transcript[1].event_type = "session_closed"
    /\ transcript[2].event_type = "drift_detected"
    /\ transcript[2].session_id = transcript[1].session_id
    /\ transcript[2].turn_sequence < transcript[1].turn_sequence
    /\ RuleCount(transcript[1].session_id, "SR-002A") = 0
    /\ RuleCount(transcript[1].session_id, "SR-001") = 1
    /\ ~ResultFor(transcript[1].session_id).is_valid

(***************************************************************************)
(* Part 7.  The session trace buffer                                       *)
(* (06_logging/session_trace_buffer.py).                                   *)
(*                                                                         *)
(* _events_by_session is a dict from session_id to the list of the events  *)
(* stored for it; it is held here as the sequence of its items in key      *)
(* order.  Every statement under `with self._lock` is one step; what a     *)
(* drain call does after it released the lock is a step of its own, on the *)
(* local variables of the call.                                            *)
(***************************************************************************)
\* how many append calls the callers make
MaxAppends == 3

\* session_id and turn_sequence values of the appended events
BufferSessions == {"s1", "s2"}

BufferTurns == {1, 2}

\* the concurrent drain calls
Drainers == {"d1", "d2"}

\* the position of the key session_id in the dict, 0 when it is not a key
KeyPos(dict, session_id) ==
    LET ks == { k \in 1..Len(dict) : dict[k].session_id = session_id }
    IN  IF ks = {} THEN 0 ELSE CHOOSE k \in ks : TRUE

\* self._events_by_session.setdefault(session_id, []).append(stored)
SetDefaultAppend(dict, session_id, stored) ==
    IF KeyPos(dict, session_id) = 0
    THEN Append(dict, [session_id |-> session_id, events |-> << stored >>])
    ELSE [dict EXCEPT ![KeyPos(dict, session_id)].events = Append(@, stored)]

\* what self._events_by_session.pop(session_id, None) returns; << >> for None
Popped(dict, session_id) ==
    IF KeyPos(dict, session_id) = 0 THEN << >>
    ELSE dict[KeyPos(dict, session_id)].events

\* the dict that self._events_by_session.pop(session_id, None) leaves
AfterPop(dict, session_id) ==
    LET Others(item) == item.session_id # session_id
    IN  SelectSeq(dict, Others)

\* sorted() that leaves the events in the order they were stored (used to
\* test the claims)
sorted_StoredOrder(events) == events

\* sorted(events, key=lambda e: e["turn_sequence"]): ascending and stable
RECURSIVE sorted(_)
sorted(events) ==
    IF events = << >> THEN << >>
    ELSE LET last == events[Len(events)]
             rest == sorted(SubSeq(events, 1, Len(events) - 1))
             k    == Cardinality({ i \in 1..Len(rest) :
                         rest[i].turn_sequence <= last.turn_sequence })
         IN  SubSeq(rest, 1, k) \o << last >> \o SubSeq(rest, k + 1, Len(rest))

\* a drain call that is not running, with the value its last run returned
IdleDrain(returned) ==
    [ pc |-> "idle", session_id |-> None, events |-> << >>,
      all_events |-> << >>, returned |-> returned ]

\* SessionTraceBuffer.__init__, and no drain call running
InitBuffer ==
    /\ events_by_session = << >>
    /\ drains = [d \in Drainers |-> IdleDrain(None)]
    /\ exported = << >>
    /\ appended = 0
    /\ smParked /\ foParked /\ ccParked /\ sqParked /\ fnParked

\* SessionTraceBuffer.append: the event is stored under the lock
BufferAppend(session_id, turn_sequence) ==
    /\ appended < MaxAppends
    /\ LET stored == [ session_id |-> session_id,
                       turn_sequence |-> turn_sequence,
                       event_id |-> appended + 1 ]
       IN  events_by_session' = SetDefaultAppend(events_by_session, session_id, stored)
    /\ appended' = appended + 1
    /\ UNCHANGED <<drains, exported>>
    /\ UNCHANGED <<smVars, foVars, ccVars, sqVars, fnVars>>

\* SessionTraceBuffer.drain_session, lines 186-190: pop under the lock, and
\* return False when there was nothing
DrainSessionPop(d, session_id) ==
    /\ drains[d].pc = "idle"
    /\ LET events == Popped(events_by_session, session_id)
       IN  drains' = [drains EXCEPT ![d] =
               IF events = << >> THEN IdleDrain("False")
               ELSE [ pc |-> "popped", session_id |-> session_id,
                      events |-> events, all_events |-> << >>,
                      returned |-> None ]]
    /\ events_by_session' = AfterPop(events_by_session, session_id)
    /\ UNCHANGED <<exported, appended>>
    /\ UNCHANGED <<smVars, foVars, ccVars, sqVars, fnVars>>

\* SessionTraceBuffer.drain_session, lines 192-197: sort, export, return True
DrainSessionExport(d) ==
    /\ drains[d].pc = "popped"
    /\ exported' = Append(exported, [ session_id |-> drains[d].session_id,
                                      events |-> sorted(drains[d].events) ])
    /\ drains' = [drains EXCEPT ![d] = IdleDrain("True")]
    /\ UNCHANGED <<events_by_session, appended>>
    /\ UNCHANGED <<smVars, foVars, ccVars, sqVars, fnVars>>

\* SessionTraceBuffer.drain_all, lines 213-216: take the dict under the lock
DrainAllTake(d) ==
    /\ drains[d].pc = "idle"
    /\ drains' = [drains EXCEPT ![d] =
           IF events_by_session = << >> THEN IdleDrain(None)
           ELSE [ pc |-> "taken", session_id |-> None, events |-> << >>,
                  all_events |-> events_by_session, returned |-> None ]]
    /\ events_by_session' = << >>
    /\ UNCHANGED <<exported, appended>>
    /\ UNCHANGED <<smVars, foVars, ccVars, sqVars, fnVars>>

\* SessionTraceBuffer.drain_all, lines 218-223: one turn of the loop
DrainAllExport(d) ==
    /\ drains[d].pc = "taken"
    /\ LET item == Head(drains[d].all_events)
           rest == Tail(drains[d].all_events)
       IN  /\ exported' = Append(exported, [ session_id |-> item.session_id,
                                             events |-> sorted(item.events) ])
           /\ drains' = [drains EXCEPT ![d] =
                  IF rest = << >> THEN IdleDrain(None)
                  ELSE [@ EXCEPT !.all_events = rest]]
    /\ UNCHANGED <<events_by_session, appended>>
    /\ UNCHANGED <<smVars, foVars, ccVars, sqVars, fnVars>>

NextBuffer ==
    \/ \E session_id \in BufferSessions, turn_sequence \in BufferTurns :
           BufferAppend(session_id, turn_sequence)
    \/ \E d \in Drainers, session_id \in BufferSessions : DrainSessionPop(d, session_id)
    \/ \E d \in Drainers : DrainSessionExport(d)
    \/ \E d \in Drainers : DrainAllTake(d)
    \/ \E d \in Drainers : DrainAllExport(d)

SpecBuffer == InitBuffer /\ [][NextBuffer]_vars

(***************************************************************************)
(* Claims about the session trace buffer.                                  *)
(***************************************************************************)
\* how many times the event with this event_id occurs in the lists of a dict
CountInDict(dict, id) ==
    Cardinality({ <<k, i>> \in (1..Len(dict)) \X (1..MaxAppends) :
                      /\ i <= Len(dict[k].events)
                      /\ dict[k].events[i].event_id = id })

\* how many times it is stored in the buffer
BufferedCount(id) == CountInDict(events_by_session, id)

\* how many times it was handed to an exporter
HandedCount(id) == CountInDict(exported, id)

\* how many times it is held in the local variables of a drain call that has
\* taken it out of the buffer and has not called the exporter with it yet
HeldCount(id) ==
    Cardinality({ <<d, i>> \in Drainers \X (1..MaxAppends) :
                      /\ i <= Len(drains[d].events)
                      /\ drains[d].events[i].event_id = id })
    + Cardinality({ <<d, k, i>> \in Drainers \X (1..MaxAppends) \X (1..MaxAppends) :
                        /\ k <= Len(drains[d].all_events)
                        /\ i <= Len(drains[d].all_events[k].events)
                        /\ drains[d].all_events[k].events[i].event_id = id })

\* every batch handed to an exporter holds events of the session it was
\* handed over for, in ascending turn_sequence order
BatchesWellFormed ==
    \A n \in 1..Len(exported) :
        LET batch == exported[n].events
        IN  /\ \A i \in 1..Len(batch) : batch[i].session_id = exported[n].session_id
            /\ \A i, j \in 1..Len(batch) :
                   i < j => batch[i].turn_sequence <= batch[j].turn_sequence

====
